---- MODULE Spec2Model ----
(***************************************************************************)
(* Stock portfolio tracker.                                                *)
(*                                                                         *)
(* Spec        the API-backed client (frontend/src/App.js) together with   *)
(*             the REST handlers and the database of backend/server.js.    *)
(* SpecPrices  the same page, the user adding stocks while the price      *)
(*             scheduler runs.                                             *)
(* SpecStore   the same page, the user adding stocks and creating,         *)
(*             switching and deleting portfolios.                          *)
(* SpecNames   the same page while the price provider is down, the user    *)
(*             adding stocks and creating and renaming portfolios.         *)
(* SpecHoldings  the same page, the user removing holdings and creating    *)
(*             and switching portfolios.                                   *)
(* SpecMutations  the same page while the price provider is down, the      *)
(*             user issuing the five requests that change the database.    *)
(* SpecDemo    the stand-alone client with simulated prices (src/app.js).  *)
(* SpecFigures either page, showing the figures of holdings and            *)
(*             portfolios, the database holding any rows.                  *)
(* SpecQuotes  the API-backed page, the user adding stocks of a few        *)
(*             symbols to several portfolios and switching between them.   *)
(* SpecLots    the API-backed page, every operation on portfolios and      *)
(*             holdings with one lot to add and one name to give.          *)
(* SpecPending the API-backed page with a price provider that may stay     *)
(*             silent, under the fairness of event loop and timers.        *)
(* SpecToken   the access-token cache of backend/server.js.                *)
(*                                                                         *)
(* Strings that the code transforms (symbols, names) are sequences of      *)
(* one-character strings, so that toUpperCase, trim and the symbol regex   *)
(* are computed.  Numbers typed into the form are raw strings parsed by    *)
(* ParseFloat.  this.portfolios and this.holdings are objects keyed by the *)
(* UUID primary keys of the database, which Object.keys and Object.values  *)
(* list in insertion order: they are sequences.  The k-th UUID the         *)
(* database generates is written k.                                        *)
(***************************************************************************)
EXTENDS Integers, Sequences, FiniteSets, TLC

\* ------------------------------------------------------------------ bounds
\* ids the database hands out for portfolios / holdings, requests in flight,
\* interval timers created, page loads
MaxPortfolioIds == 2
MaxHoldingIds == 2
MaxInFlight == 2
MaxTimers == 2
\* holdings of a portfolio and price simulations of the stand-alone client
MaxDemoHoldings == 4
MaxTicks == 1
\* calls of the access-token service awaiting their answer together
MaxTokenRequests == 2

\* ------------------------------------------------------- values and inputs
NoId == 0
NaN == -999

PortfolioIds == 1..MaxPortfolioIds
HoldingIds == 1..MaxHoldingIds

\* what the user may type into the symbol field
RawSymbols == { <<>>, <<" ", "a">>, <<"A">>, <<"B", ".">> }
\* what the user may type into the shares and price fields
RawNumbers == { "", "abc", "-1", "0", "2" }
RawDates == { "", "2024-01-15" }
RawNames == { <<>>, <<" ">>, <<" ", "I", " ">> }

\* the form submissions tried: every symbol with valid numbers, and every
\* shares, price and date with a valid symbol
AddStockInputs ==
    { [symbol |-> rs, shares |-> "2", price |-> "2", date |-> "2024-01-15"] :
        rs \in RawSymbols }
    \cup { [symbol |-> <<"A">>, shares |-> n, price |-> "2", date |-> "2024-01-15"] :
        n \in RawNumbers }
    \cup { [symbol |-> <<"A">>, shares |-> "2", price |-> n, date |-> "2024-01-15"] :
        n \in RawNumbers }
    \cup { [symbol |-> <<"A">>, shares |-> "2", price |-> "2", date |-> d] :
        d \in RawDates }
\* form submissions that differ in the symbol only, one with a comma in it
SymbolInputs ==
    { [symbol |-> rs, shares |-> "2", price |-> "2", date |-> "2024-01-15"] :
        rs \in { <<"A">>, <<"B">>, <<"A", ",", "A">> } }
\* one form submission, of a lot unlike the one the database starts with
LotInputs == { [symbol |-> <<"B">>, shares |-> "3", price |-> "4", date |-> "2024-01-15"] }
\* one name typed into the portfolio dialogs
LotNames == { <<" ", "I", " ">> }
\* the `last` field of a quote of the price provider
QuoteLasts == { "N/A", "3" }

\* the characters of the strings used
Chars == { "a", "b", "k", "o", "A", "B", "E", "F", "G", "I", "J", "K", "L", "M", "N",
           "O", "P", "S", "T", " ", ".", "," }

UpperOf == [c \in Chars |->
              CASE c = "a" -> "A" [] c = "b" -> "B" [] c = "k" -> "K"
                [] c = "o" -> "O" [] OTHER -> c]

\* String.prototype.toUpperCase
ToUpperCase(s) == [i \in 1..Len(s) |-> UpperOf[s[i]]]

RECURSIVE TrimLeft(_)
TrimLeft(s) == IF s # <<>> /\ Head(s) = " " THEN TrimLeft(Tail(s)) ELSE s

RECURSIVE TrimRight(_)
TrimRight(s) ==
    IF s # <<>> /\ s[Len(s)] = " " THEN TrimRight(SubSeq(s, 1, Len(s) - 1)) ELSE s

\* a trim that leaves the string as it is
NoTrim(s) == s

\* String.prototype.trim
Trim(s) == TrimRight(TrimLeft(s))

\* parseFloat on the raw strings of the form
ParseFloat(raw) ==
    CASE raw = "-1" -> -1
      [] raw = "0" -> 0
      [] raw = "1" -> 1
      [] raw = "2" -> 2
      [] raw = "3" -> 3
      [] raw = "4" -> 4
      [] OTHER -> NaN

isNaN(x) == x = NaN
\* JavaScript truthiness of a number: !x holds of 0 and NaN
Falsy(x) == x = 0 \/ isNaN(x)
\* x <= 0 and x < 0 are false when x is NaN
LeZero(x) == ~isNaN(x) /\ x <= 0
LtZero(x) == ~isNaN(x) /\ x < 0

Range(s) == { s[i] : i \in DOMAIN s }

\* ------------------------------------------------------------------- state
VARIABLES
    portfolios,           \* this.portfolios: portfolio objects in key order
    holdings,             \* this.holdings: holding id -> holding object
    currentPortfolioId,   \* this.currentPortfolioId (NoId: null / undefined)
    priceUpdateInterval,  \* this.priceUpdateInterval (NoId: null)
    timers,               \* interval timers armed in the browser
    nextTimer,            \* next id setInterval returns
    onOkCallback,         \* what the OK button of the open confirmation dialog runs
    net,                  \* HTTP requests of the page in flight, in issue order
    phase,                \* "loading" until loadDataFromApi has settled
    dbPortfolios,         \* table Portfolios, in createdAt order
    dbHoldings,           \* table Holdings, in createdAt order
    nextPid,              \* the primary key the next Portfolio row gets
    nextHid,              \* the primary key the next Holding row gets
    pricesApplied,        \* <<prices>> that the last fetchRealTimePrices which
                          \* succeeded applied, <<>> before the first
    lastOp                \* the last step: the operation, the dialog it showed
                          \* and whether it rewrote the 'lastUpdated' element

\* the stand-alone client of src/app.js
VARIABLES
    demoPortfolios,          \* this.portfolios, each with its holdings array
    demoCurrentPortfolioId,  \* this.currentPortfolioId
    priceRanges,             \* this.priceRanges: symbol -> [min, max]
    updateInterval,          \* this.updateInterval (NoId: null)
    previousPortfolioValue,  \* this.previousPortfolioValue
    demoPhase,               \* "constructed" until initializeApp has run
    ticks                    \* price simulations run so far

\* the access-token cache of backend/server.js
VARIABLES
    apiAccessToken,   \* apiAccessToken: token (NoToken: null) and expiresAt
    now,              \* Date.now() on the server, in ms since it started
    tokenRequests,    \* calls of the access-token service awaiting their answer
    secretKey         \* PUBLIC_API_SECRET_KEY (NoKey: the variable is not set)

apiVars == << portfolios, holdings, currentPortfolioId, priceUpdateInterval,
              onOkCallback, net, phase, dbPortfolios, dbHoldings, nextPid, nextHid,
              pricesApplied >>

demoVars == << demoPortfolios, demoCurrentPortfolioId, priceRanges, updateInterval,
               previousPortfolioValue, demoPhase, ticks >>

serverVars == << apiAccessToken, now, tokenRequests, secretKey >>

vars == << apiVars, demoVars, serverVars, timers, nextTimer, lastOp >>

NoCallback == [kind |-> "none"]
\* lastOp after operation op that showed dialog `shown` ("" when none) and
\* did not call render
Did(op, shown) == [op |-> op, shown |-> shown, refreshed |-> FALSE]

\* --------------------------------------------------------- client helpers
\* this.portfolios[id] !== undefined
HasPortfolio(ps, id) == \E i \in DOMAIN ps : ps[i].id = id

PortfolioOf(ps, id) == ps[CHOOSE i \in DOMAIN ps : ps[i].id = id]

\* this.holdings[id] !== undefined
HasHolding(hs, id) == \E i \in DOMAIN hs : hs[i].id = id

HoldingOf(hs, id) == hs[CHOOSE i \in DOMAIN hs : hs[i].id = id]

\* getCurrentPortfolio() !== null
HasCurrentPortfolio == HasPortfolio(portfolios, currentPortfolioId)

getCurrentPortfolio == PortfolioOf(portfolios, currentPortfolioId)

\* render() on portfolios ps with current id `current`: TRUE when it reaches
\* updateLastUpdated(), FALSE when it returns after renderEmptyState()
render(ps, current) == HasPortfolio(ps, current)

\* lastOp after operation op that showed `shown` and then called render()
Rendered(op, shown, ps, current) ==
    [op |-> op, shown |-> shown, refreshed |-> render(ps, current)]

\* Object.keys(this.portfolios)[0], undefined when there is none
FirstKey(ps) == IF ps = <<>> THEN NoId ELSE ps[1].id

\* new Set(array), Array.from(set): first occurrences, in order
RECURSIVE NewSet(_)
NewSet(arr) ==
    IF arr = <<>> THEN <<>>
    ELSE LET rest == NewSet(SubSeq(arr, 1, Len(arr) - 1))
             x == arr[Len(arr)]
         IN IF x \in Range(rest) THEN rest ELSE Append(rest, x)

\* Object.values(this.holdings).map(h => h.symbol)
SymbolsOf(hs) == [i \in DOMAIN hs |-> hs[i].symbol]

\* a head of fetchRealTimePrices without the early return on an empty set
FetchRequestsAlways(hs) == << [kind |-> "quotes", symbols |-> NewSet(SymbolsOf(hs))] >>

\* the head of fetchRealTimePrices: the quote requests it sends (none or one)
FetchRequests(hs) ==
    LET allSymbols == NewSet(SymbolsOf(hs))
    IN IF Len(allSymbols) = 0 THEN <<>>
       ELSE << [kind |-> "quotes", symbols |-> allSymbols] >>

\* GET /api/quotes: the provider's quotes turned into the prices object.
\* quotes maps a requested symbol to the `last` of its quote; a symbol that
\* is not in its domain has no quote.
QuotesHandler(quotes) ==
    LET priced == { s \in DOMAIN quotes : ~isNaN(ParseFloat(quotes[s])) }
    IN [s \in priced |-> ParseFloat(quotes[s])]

\* a forEach that writes the price of every holding, 0 when it is missing
ApplyPricesOrZero(hs, prices) ==
    [i \in DOMAIN hs |->
        [hs[i] EXCEPT !.currentPrice =
            IF hs[i].symbol \in DOMAIN prices THEN prices[hs[i].symbol] ELSE 0]]

\* a forEach that writes the prices of the holdings listed in the current
\* portfolio only
ApplyPricesToCurrent(hs, prices) ==
    [i \in DOMAIN hs |->
        IF /\ hs[i].symbol \in DOMAIN prices
           /\ HasCurrentPortfolio
           /\ hs[i].id \in Range(getCurrentPortfolio.holdingIds)
        THEN [hs[i] EXCEPT !.currentPrice = prices[hs[i].symbol]]
        ELSE hs[i]]

\* a forEach that writes the price over the purchase price as well
ApplyPricesOverCost(hs, prices) ==
    [i \in DOMAIN hs |->
        IF hs[i].symbol \in DOMAIN prices
        THEN [hs[i] EXCEPT !.currentPrice = prices[hs[i].symbol],
                           !.purchasePrice = prices[hs[i].symbol]]
        ELSE hs[i]]

\* the forEach of fetchRealTimePrices that writes the prices
ApplyPrices(hs, prices) ==
    [i \in DOMAIN hs |->
        IF hs[i].symbol \in DOMAIN prices
        THEN [hs[i] EXCEPT !.currentPrice = prices[hs[i].symbol]]
        ELSE hs[i]]

Remove(s, i) == SubSeq(s, 1, i - 1) \o SubSeq(s, i + 1, Len(s))

InFlight(kind) == { i \in DOMAIN net : net[i].kind = kind }

\* ------------------------------------------------------------------- start
LoadRequest == [kind |-> "load"]

\* What the database holds when the page is opened: nothing (first use), or
\* what an earlier session left there, one portfolio with one holding.
SeedPortfolios == << [id |-> 1, name |-> <<"G">>] >>

SeedHoldings ==
    << [id |-> 1, portfolioId |-> 1, symbol |-> <<"A">>, shares |-> 2,
        purchasePrice |-> 2, purchaseDate |-> "2024-01-15"] >>

NoToken == ""
NoKey == ""

\* the server has started with its key and has not asked for a token yet
ServerStarted ==
    /\ apiAccessToken = [token |-> NoToken, expiresAt |-> 0]
    /\ now = 0
    /\ tokenRequests = 0
    /\ secretKey = "secret"

\* the page is not the stand-alone client
NoDemo ==
    /\ demoPortfolios = <<>>
    /\ demoCurrentPortfolioId = ""
    /\ priceRanges = <<>>
    /\ updateInterval = NoId
    /\ previousPortfolioValue = 0
    /\ demoPhase = "absent"
    /\ ticks = 0

\* constructor and the first statement of initializeApp and loadDataFromApi
Init ==
    /\ NoDemo
    /\ ServerStarted
    /\ portfolios = <<>>
    /\ holdings = <<>>
    /\ currentPortfolioId = NoId
    /\ priceUpdateInterval = NoId
    /\ timers = {}
    /\ nextTimer = 1
    /\ onOkCallback = NoCallback
    /\ net = << LoadRequest >>
    /\ phase = "loading"
    /\ pricesApplied = <<>>
    /\ \/ /\ dbPortfolios = <<>>
          /\ dbHoldings = <<>>
          /\ nextPid = 1
          /\ nextHid = 1
       \/ /\ dbPortfolios = SeedPortfolios
          /\ dbHoldings = SeedHoldings
          /\ nextPid = 2
          /\ nextHid = 2
    /\ lastOp = Did("constructor", "")

\* ------------------------------------------------------------------ server
\* rows of table Holdings that belong to portfolio pid, in createdAt order
HoldingsOfPortfolio(dbH, pid) == SelectSeq(dbH, LAMBDA h : h.portfolioId = pid)

\* GET /api/portfolios: Portfolio.findAll including Holdings
FindAll(dbP, dbH) ==
    [i \in DOMAIN dbP |->
        [id |-> dbP[i].id, name |-> dbP[i].name,
         Holdings |-> HoldingsOfPortfolio(dbH, dbP[i].id)]]

\* What a REST handler does with request req on tables dbP, dbH when the
\* database works: the tables after it, the status class and the body.
Handle(req, dbP, dbH, pid, hid) ==
    LET same == [dbP |-> dbP, dbH |-> dbH, pid |-> pid, hid |-> hid]
        fail == same @@ [ok |-> FALSE, body |-> <<>>]
    IN CASE req.kind = "load" ->
              same @@ [ok |-> TRUE, body |-> FindAll(dbP, dbH)]
         [] req.kind = "createPortfolio" ->
              IF req.name = <<>> THEN fail
              ELSE [dbP |-> Append(dbP, [id |-> pid, name |-> req.name]),
                    dbH |-> dbH, pid |-> pid + 1, hid |-> hid,
                    ok |-> TRUE, body |-> [id |-> pid, name |-> req.name]]
         [] req.kind = "savePortfolioName" ->
              IF ~HasPortfolio(dbP, req.pid) THEN fail
              ELSE [dbP |-> [i \in DOMAIN dbP |->
                                IF dbP[i].id = req.pid
                                THEN [dbP[i] EXCEPT !.name = req.name] ELSE dbP[i]],
                    dbH |-> dbH, pid |-> pid, hid |-> hid, ok |-> TRUE, body |-> <<>>]
         [] req.kind = "deletePortfolio" ->
              IF ~HasPortfolio(dbP, req.pid) THEN fail
              ELSE [dbP |-> SelectSeq(dbP, LAMBDA p : p.id # req.pid),
                    dbH |-> SelectSeq(dbH, LAMBDA h : h.portfolioId # req.pid),
                    pid |-> pid, hid |-> hid, ok |-> TRUE, body |-> <<>>]
         [] req.kind = "addStock" ->
              \* Holding.create: the foreign key portfolioId must exist
              IF ~HasPortfolio(dbP, req.pid) THEN fail
              ELSE LET row == [id |-> hid, portfolioId |-> req.pid,
                               symbol |-> req.symbol, shares |-> req.shares,
                               purchasePrice |-> req.purchasePrice,
                               purchaseDate |-> req.purchaseDate]
                   IN [dbP |-> dbP, dbH |-> Append(dbH, row), pid |-> pid,
                       hid |-> hid + 1, ok |-> TRUE, body |-> row]
         [] req.kind = "removeHolding" ->
              IF ~HasHolding(dbH, req.hid) THEN fail
              ELSE [dbP |-> dbP, dbH |-> SelectSeq(dbH, LAMBDA h : h.id # req.hid),
                    pid |-> pid, hid |-> hid, ok |-> TRUE, body |-> <<>>]

Outcomes == { "ok", "error" }

\* The answer of the server to request req.  outcome "ok": the handler runs;
\* "error": the database fails and the handler answers 500 without a change.
Answer(req, outcome) ==
    IF outcome = "ok"
    THEN Handle(req, dbPortfolios, dbHoldings, nextPid, nextHid)
    ELSE [dbP |-> dbPortfolios, dbH |-> dbHoldings, pid |-> nextPid, hid |-> nextHid,
          ok |-> FALSE, body |-> <<>>]

\* a client that does not look at the status of the answer
ResponseUnchecked(a) == TRUE

\* response.ok of answer a, tested before `throw new Error(...)` by the
\* callbacks that do not read the body
ResponseOk(a) == a.ok

\* the tables after answer a
Served(a) ==
    /\ dbPortfolios' = a.dbP
    /\ dbHoldings' = a.dbH
    /\ nextPid' = a.pid
    /\ nextHid' = a.hid

\* --------------------------------------------------- client: load and timer
\* loadDataFromApi: each holding of the answer gets currentPrice
WithCurrentPrice(h) ==
    [id |-> h.id, portfolioId |-> h.portfolioId, symbol |-> h.symbol,
     shares |-> h.shares, purchasePrice |-> h.purchasePrice,
     purchaseDate |-> h.purchaseDate, currentPrice |-> h.purchasePrice]

\* loadDataFromApi: this.holdings after data.forEach
RECURSIVE LoadedHoldings(_)
LoadedHoldings(data) ==
    IF data = <<>> THEN <<>>
    ELSE [j \in DOMAIN Head(data).Holdings |-> WithCurrentPrice(Head(data).Holdings[j])]
         \o LoadedHoldings(Tail(data))

\* loadDataFromApi: this.portfolios after data.forEach
LoadedPortfolios(data) ==
    [k \in DOMAIN data |->
        [id |-> data[k].id, name |-> data[k].name,
         holdingIds |-> [j \in DOMAIN data[k].Holdings |-> data[k].Holdings[j].id]]]

\* clearInterval(id)
clearInterval(ts, id) == ts \ {id}

\* startPriceUpdates: the timers armed after it
TimersAfterStart(ts, interval, fresh) ==
    (IF interval # NoId THEN clearInterval(ts, interval) ELSE ts) \cup {fresh}

\* A request is handled by the server and its answer taken in by the page in
\* one step: answers reach the page in the order the server handles the
\* requests.
\*
\* initializeApp after `await this.loadDataFromApi()`: the answer of
\* GET /api/portfolios is taken in (or the error shown), then render and
\* startPriceUpdates run.
LoadResponse(i, outcome) ==
    /\ i \in InFlight("load")
    /\ Served(Answer(net[i], outcome))
    /\ LET ok == Answer(net[i], outcome).ok
           data == Answer(net[i], outcome).body
           hs == IF ok THEN LoadedHoldings(data) ELSE holdings
       IN /\ portfolios' = IF ok THEN LoadedPortfolios(data) ELSE portfolios
          /\ holdings' = hs
          /\ currentPortfolioId' =
                IF ok THEN (IF Len(data) > 0 THEN data[1].id ELSE NoId)
                ELSE currentPortfolioId
          /\ lastOp' = Rendered("load", IF ok THEN "" ELSE "Connection Error",
                                 portfolios', currentPortfolioId')
          /\ net' = Remove(net, i) \o FetchRequests(hs)
    /\ timers' = TimersAfterStart(timers, priceUpdateInterval, nextTimer)
    /\ priceUpdateInterval' = nextTimer
    /\ nextTimer' = nextTimer + 1
    /\ phase' = "ready"
    /\ onOkCallback' = IF Answer(net[i], outcome).ok THEN onOkCallback ELSE NoCallback
    /\ UNCHANGED << demoVars, pricesApplied, serverVars >>

\* startPriceUpdates()
startPriceUpdates ==
    /\ phase = "ready"
    /\ nextTimer <= MaxTimers
    /\ Len(net) < MaxInFlight
    /\ net' = net \o FetchRequests(holdings)
    /\ timers' = TimersAfterStart(timers, priceUpdateInterval, nextTimer)
    /\ priceUpdateInterval' = nextTimer
    /\ nextTimer' = nextTimer + 1
    /\ lastOp' = Did("startPriceUpdates", "")
    /\ UNCHANGED << portfolios, holdings, currentPortfolioId, onOkCallback, phase,
                    dbPortfolios, dbHoldings, nextPid, nextHid >>
    /\ UNCHANGED << demoVars, pricesApplied, serverVars >>

\* an armed interval timer fires: () => this.fetchRealTimePrices()
Tick(t) ==
    /\ t \in timers
    /\ Len(net) < MaxInFlight
    /\ net' = net \o FetchRequests(holdings)
    /\ lastOp' = Did("tick", "")
    /\ UNCHANGED << portfolios, holdings, currentPortfolioId, priceUpdateInterval,
                    timers, nextTimer, onOkCallback, phase, dbPortfolios, dbHoldings,
                    nextPid, nextHid >>
    /\ UNCHANGED << demoVars, pricesApplied, serverVars >>

\* the ways the quote request of fetchRealTimePrices fails: fetch rejects,
\* the status is not OK, response.json() rejects
QuoteFailures == { "network", "status", "body" }

\* a catch branch that clears the prices it could not refresh
HoldingsCleared(hs) == [i \in DOMAIN hs |-> [hs[i] EXCEPT !.currentPrice = 0]]

\* fetchRealTimePrices, catch branch: what becomes of this.holdings
HoldingsAfterFailure(hs) == hs

\* a catch branch that calls fetchRealTimePrices again at once
NetAfterRetry(n, i, hs) == Remove(n, i) \o FetchRequests(hs)

\* fetchRealTimePrices, catch branch: the requests in flight after request i
\* has failed
NetAfterFailure(n, i, hs) == Remove(n, i)

\* fetchRealTimePrices after its await, the request having failed
QuoteFailed(i, how) ==
    /\ i \in InFlight("quotes")
    /\ how \in QuoteFailures
    /\ holdings' = HoldingsAfterFailure(holdings)
    /\ net' = NetAfterFailure(net, i, holdings)
    /\ lastOp' = Did("quoteFailed", "")
    /\ UNCHANGED << portfolios, currentPortfolioId, priceUpdateInterval, timers,
                    nextTimer, onOkCallback, phase, dbPortfolios, dbHoldings,
                    nextPid, nextHid >>
    /\ UNCHANGED << demoVars, pricesApplied, serverVars >>

\* Array.from(allSymbols).join(','): the symbols query of the request
RECURSIVE Join(_)
Join(symbols) ==
    IF symbols = <<>> THEN <<>>
    ELSE IF Len(symbols) = 1 THEN symbols[1]
    ELSE symbols[1] \o << "," >> \o Join(Tail(symbols))

\* symbols.split(','): the pieces between the commas
RECURSIVE Split(_)
Split(query) ==
    IF \A k \in DOMAIN query : query[k] # "," THEN << query >>
    ELSE LET c == CHOOSE k \in DOMAIN query :
                     query[k] = "," /\ \A j \in 1..(k - 1) : query[j] # ","
         IN << SubSeq(query, 1, c - 1) >>
            \o Split(SubSeq(query, c + 1, Len(query)))

\* GET /api/quotes: the instruments posted to the price provider, in order
Instruments(query) == [k \in DOMAIN Split(query) |-> ToUpperCase(Split(query)[k])]

\* the quotes the provider may return for a request: a `last` for some of
\* the instruments asked
ProviderQuotes(symbols) ==
    UNION { [asked -> QuoteLasts] :
              asked \in SUBSET Range(Instruments(Join(symbols))) }

\* lastOp after fetchRealTimePrices applied `prices` and called render();
\* `again` tells that the fetchRealTimePrices which succeeded before this
\* one applied the same prices, `flashed` that the price cells were given
\* the class 'price-flash', which follows render() without a condition, and
\* `at` the place its request had among the requests in flight
QuotesApplied(before, prices, ps, current, i) ==
    [op |-> "quoteSucceeded", shown |-> "", refreshed |-> render(ps, current),
     again |-> (before = << prices >>), flashed |-> TRUE, at |-> i]

\* fetchRealTimePrices after its await, the server having answered 200 with
\* the prices the handler made of the provider's quotes
QuoteSucceeded(i, quotes) ==
    /\ i \in InFlight("quotes")
    /\ quotes \in ProviderQuotes(net[i].symbols)
    /\ holdings' = ApplyPrices(holdings, QuotesHandler(quotes))
    /\ net' = Remove(net, i)
    /\ lastOp' = QuotesApplied(pricesApplied, QuotesHandler(quotes), portfolios,
                               currentPortfolioId, i)
    /\ UNCHANGED << portfolios, currentPortfolioId, priceUpdateInterval, timers,
                    nextTimer, onOkCallback, phase, dbPortfolios, dbHoldings,
                    nextPid, nextHid >>
    /\ pricesApplied' = << QuotesHandler(quotes) >>
    /\ UNCHANGED << demoVars, serverVars >>

\* The price provider never answers the call of GET /api/quotes for request
\* i: axios.post is awaited without a timeout and so is the fetch of the
\* page, hence neither promise settles and the request stays in flight.
QuoteUnanswered(i) ==
    /\ i \in InFlight("quotes")
    /\ net' = [net EXCEPT ![i].kind = "quotesUnanswered"]
    /\ lastOp' = Did("quoteUnanswered", "")
    /\ UNCHANGED << portfolios, holdings, currentPortfolioId, priceUpdateInterval,
                    timers, nextTimer, onOkCallback, phase, dbPortfolios, dbHoldings,
                    nextPid, nextHid >>
    /\ UNCHANGED << demoVars, pricesApplied, serverVars >>

\* ---------------------------------------------- server: the access token
\* the margin before the expiry within which a cached token is not used, ms
TokenMargin == 60000
\* the minutes a token is taken to be valid when the answer does not say
DefaultValidity == 55
MsPerMinute == 60 * 1000

\* the instants at which the server is looked at, in ms since it started
Instants == { 0, 59999, 60000, 3239999, 3240000, 3299999 }

\* what the access-token service may answer: an error, or 200 with a body
\* whose accessToken (NoToken: absent) and validity_in_minutes (0: absent)
TokenAnswers ==
    { [ok |-> FALSE, accessToken |-> NoToken, validity_in_minutes |-> 0] }
    \cup [ok : { TRUE }, accessToken : { NoToken, "t1", "t2" },
          validity_in_minutes : { 0, 2 }]

\* a cache test that does not look at the expiry
CachedTokenPresent(cache, t) == cache.token # NoToken

\* apiAccessToken.token && Date.now() < apiAccessToken.expiresAt - 60000
CachedTokenValid(cache, t) ==
    cache.token # NoToken /\ t < cache.expiresAt - TokenMargin

\* (response.data.validity_in_minutes || 55) * 60 * 1000
ValidityMs(data) ==
    (IF data.validity_in_minutes # 0 THEN data.validity_in_minutes
     ELSE DefaultValidity) * MsPerMinute

\* lastOp after a step of getValidAccessToken: the token it returned
\* (NoToken: none yet, or it threw), whether it threw, whether it called the
\* access-token service
TokenStep(op, token, error, called) ==
    [op |-> op, shown |-> "", refreshed |-> FALSE, returned |-> token,
     threw |-> error, requested |-> called]

\* getValidAccessToken() up to its return, its throw or its await
getValidAccessToken ==
    /\ IF CachedTokenValid(apiAccessToken, now)
       THEN /\ lastOp' = TokenStep("getValidAccessToken", apiAccessToken.token,
                                   FALSE, FALSE)
            /\ UNCHANGED tokenRequests
       ELSE IF secretKey = NoKey
       THEN /\ lastOp' = TokenStep("getValidAccessToken", NoToken, TRUE, FALSE)
            /\ UNCHANGED tokenRequests
       ELSE /\ tokenRequests < MaxTokenRequests
            /\ tokenRequests' = tokenRequests + 1
            /\ lastOp' = TokenStep("getValidAccessToken", NoToken, FALSE, TRUE)
    /\ UNCHANGED << apiAccessToken, now, secretKey >>
    /\ UNCHANGED << apiVars, demoVars, timers, nextTimer >>

\* getValidAccessToken after its await: the access-token service has
\* answered, or the call has failed
TokenResponse(data) ==
    /\ tokenRequests > 0
    /\ data \in TokenAnswers
    /\ tokenRequests' = tokenRequests - 1
    /\ IF data.ok /\ data.accessToken # NoToken
       THEN /\ apiAccessToken' =
                 [token |-> data.accessToken, expiresAt |-> now + ValidityMs(data)]
            /\ lastOp' = TokenStep("tokenResponse", data.accessToken, FALSE, FALSE)
       ELSE /\ UNCHANGED apiAccessToken
            /\ lastOp' = TokenStep("tokenResponse", NoToken, TRUE, FALSE)
    /\ UNCHANGED << now, secretKey >>
    /\ UNCHANGED << apiVars, demoVars, timers, nextTimer >>

\* time passes on the server
ClockAdvances(t) ==
    /\ t \in Instants
    /\ t > now
    /\ now' = t
    /\ lastOp' = Did("clock", "")
    /\ UNCHANGED << apiAccessToken, tokenRequests, secretKey >>
    /\ UNCHANGED << apiVars, demoVars, timers, nextTimer >>

\* ----------------------------------------------------- client: user actions
\* The user acts on the page once loadDataFromApi has settled.
Send(req) == Append(net, req)

\* switchPortfolio(portfolioId)
switchPortfolio(portfolioId) ==
    /\ phase = "ready"
    /\ currentPortfolioId' =
          IF HasPortfolio(portfolios, portfolioId) THEN portfolioId
          ELSE currentPortfolioId
    /\ lastOp' = IF HasPortfolio(portfolios, portfolioId)
                  THEN Rendered("switchPortfolio", "", portfolios, portfolioId)
                  ELSE Did("switchPortfolio", "")
    /\ UNCHANGED << portfolios, holdings, priceUpdateInterval, timers, nextTimer,
                    onOkCallback, net, phase, dbPortfolios, dbHoldings, nextPid,
                    nextHid >>
    /\ UNCHANGED << demoVars, pricesApplied, serverVars >>

\* addStock: the validation of the form fields
InvalidInput(symbol, shares, purchasePrice, purchaseDate) ==
    \/ symbol = <<>>
    \/ Falsy(shares)
    \/ Falsy(purchasePrice)
    \/ purchaseDate = ""
    \/ LeZero(shares)
    \/ LtZero(purchasePrice)

\* addStock: portfolio.holdingIds.some(id => this.holdings[id].symbol === symbol);
\* reading .symbol of a holding that is not in this.holdings throws
RECURSIVE SomeSameSymbol(_, _, _)
SomeSameSymbol(ids, hs, symbol) ==
    IF ids = <<>> THEN "no"
    ELSE IF ~HasHolding(hs, Head(ids)) THEN "threw"
    ELSE IF HoldingOf(hs, Head(ids)).symbol = symbol THEN "yes"
    ELSE SomeSameSymbol(Tail(ids), hs, symbol)

\* ids the database has handed out or will hand out for the requests sent
HoldingIdsSpoken ==
    (nextHid - 1) + Cardinality(InFlight("addStock"))

PortfolioIdsSpoken ==
    (nextPid - 1) + Cardinality(InFlight("createPortfolio"))

\* addStock up to its await: "No Portfolio", "Invalid Input", "Duplicate Stock",
\* "threw" (a TypeError leaves the function) or "send" (the POST is sent)
AddStockVerdict(ps, hs, current, symbol, shares, purchasePrice, purchaseDate) ==
    IF ~HasPortfolio(ps, current) THEN "No Portfolio"
    ELSE IF InvalidInput(symbol, shares, purchasePrice, purchaseDate)
    THEN "Invalid Input"
    ELSE LET some == SomeSameSymbol(PortfolioOf(ps, current).holdingIds, hs, symbol)
         IN CASE some = "yes" -> "Duplicate Stock"
              [] some = "threw" -> "threw"
              [] OTHER -> "send"

\* addStock() up to its await
addStock(in) ==
    /\ phase = "ready"
    /\ LET symbol == Trim(ToUpperCase(in.symbol))
           shares == ParseFloat(in.shares)
           purchasePrice == ParseFloat(in.price)
           verdict == AddStockVerdict(portfolios, holdings, currentPortfolioId,
                                      symbol, shares, purchasePrice, in.date)
       IN IF verdict = "send"
          THEN /\ Len(net) < MaxInFlight
               /\ HoldingIdsSpoken < MaxHoldingIds
               /\ net' = Send([kind |-> "addStock", pid |-> getCurrentPortfolio.id,
                               symbol |-> symbol, shares |-> shares,
                               purchasePrice |-> purchasePrice,
                               purchaseDate |-> in.date])
               /\ lastOp' = Did("addStock", "")
               /\ UNCHANGED onOkCallback
          ELSE /\ net' = net
               /\ lastOp' = Did("addStock", verdict)
               /\ onOkCallback' = IF verdict = "threw" THEN onOkCallback ELSE NoCallback
    /\ UNCHANGED << portfolios, holdings, currentPortfolioId, priceUpdateInterval,
                    timers, nextTimer, phase, dbPortfolios, dbHoldings,
                    nextPid, nextHid >>
    /\ UNCHANGED << demoVars, pricesApplied, serverVars >>

\* addStock() after its await
AddStockResponse(i, outcome) ==
    /\ i \in InFlight("addStock")
    /\ Served(Answer(net[i], outcome))
    /\ IF Answer(net[i], outcome).ok
       THEN LET newHolding == WithCurrentPrice(Answer(net[i], outcome).body)
                hs == Append(holdings, newHolding)
            IN /\ holdings' = hs
               /\ IF HasPortfolio(portfolios, net[i].pid)
                  THEN /\ portfolios' =
                            [k \in DOMAIN portfolios |->
                               IF portfolios[k].id = net[i].pid
                               THEN [portfolios[k] EXCEPT
                                        !.holdingIds = Append(@, newHolding.id)]
                               ELSE portfolios[k]]
                       /\ net' = Remove(net, i) \o FetchRequests(hs)
                       /\ lastOp' = Did("addStockDone", "")
                       /\ UNCHANGED onOkCallback
                  ELSE \* this.portfolios[portfolio.id] is undefined: TypeError
                       /\ net' = Remove(net, i)
                       /\ lastOp' = Did("addStockDone", "Error")
                       /\ onOkCallback' = NoCallback
                       /\ UNCHANGED portfolios
       ELSE /\ net' = Remove(net, i)
            /\ lastOp' = Did("addStockDone", "Error")
            /\ onOkCallback' = NoCallback
            /\ UNCHANGED << portfolios, holdings >>
    /\ UNCHANGED << currentPortfolioId, priceUpdateInterval, timers, nextTimer,
                    phase >>
    /\ UNCHANGED << demoVars, pricesApplied, serverVars >>

\* renderHoldings: the holdings that have a row with a delete button
RenderedHoldings ==
    IF HasCurrentPortfolio
    THEN { id \in Range(getCurrentPortfolio.holdingIds) : HasHolding(holdings, id) }
    ELSE {}

\* removeHolding(holdingId, symbol), called by the delete button of a row:
\* asks for confirmation
removeHolding(holdingId) ==
    /\ phase = "ready"
    /\ holdingId \in RenderedHoldings
    /\ onOkCallback' = [kind |-> "removeHolding", hid |-> holdingId]
    /\ lastOp' = Did("removeHolding", "Confirm Deletion")
    /\ UNCHANGED << portfolios, holdings, currentPortfolioId, priceUpdateInterval,
                    timers, nextTimer, net, phase, dbPortfolios, dbHoldings, nextPid,
                    nextHid >>
    /\ UNCHANGED << demoVars, pricesApplied, serverVars >>

\* the OK button of the confirmation dialog: closeAllModals, onOkCallback
ConfirmOk ==
    /\ onOkCallback # NoCallback
    /\ Len(net) < MaxInFlight
    /\ net' = Send(onOkCallback)
    /\ onOkCallback' = NoCallback
    /\ lastOp' = Did("confirmOk", "")
    /\ UNCHANGED << portfolios, holdings, currentPortfolioId, priceUpdateInterval,
                    timers, nextTimer, phase, dbPortfolios, dbHoldings, nextPid,
                    nextHid >>
    /\ UNCHANGED << demoVars, pricesApplied, serverVars >>

\* the cancel button, the backdrop or Escape: closeAllModals
ConfirmCancel ==
    /\ onOkCallback # NoCallback
    /\ onOkCallback' = NoCallback
    /\ lastOp' = Did("confirmCancel", "")
    /\ UNCHANGED << portfolios, holdings, currentPortfolioId, priceUpdateInterval,
                    timers, nextTimer, net, phase, dbPortfolios, dbHoldings, nextPid,
                    nextHid >>
    /\ UNCHANGED << demoVars, pricesApplied, serverVars >>

\* the confirmation callback of removeHolding after its await
RemoveHoldingResponse(i, outcome) ==
    /\ i \in InFlight("removeHolding")
    /\ Served(Answer(net[i], outcome))
    /\ IF ResponseOk(Answer(net[i], outcome))
       THEN /\ portfolios' =
                 [k \in DOMAIN portfolios |->
                    IF portfolios[k].id = currentPortfolioId
                    THEN [portfolios[k] EXCEPT
                            !.holdingIds = SelectSeq(@, LAMBDA id : id # net[i].hid)]
                    ELSE portfolios[k]]
            /\ holdings' = SelectSeq(holdings, LAMBDA h : h.id # net[i].hid)
            /\ lastOp' = Rendered("removeHoldingDone", "", portfolios',
                                   currentPortfolioId)
            /\ UNCHANGED onOkCallback
       ELSE /\ lastOp' = Did("removeHoldingDone", "Error")
            /\ onOkCallback' = NoCallback
            /\ UNCHANGED << portfolios, holdings >>
    /\ net' = Remove(net, i)
    /\ UNCHANGED << currentPortfolioId, priceUpdateInterval, timers, nextTimer,
                    phase >>
    /\ UNCHANGED << demoVars, pricesApplied, serverVars >>

\* a createPortfolio that posts whatever name it is given
CreateRequestsUnchecked(newName) ==
    << [kind |-> "createPortfolio", name |-> newName] >>

\* createPortfolio: the requests it issues, none when it returns with the
\* dialog 'Invalid Name'
CreateRequests(newName) ==
    IF newName = <<>> THEN <<>>
    ELSE << [kind |-> "createPortfolio", name |-> newName] >>

\* createPortfolio() up to its await
createPortfolio(rawName) ==
    /\ phase = "ready"
    /\ LET newName == Trim(rawName)
       IN IF newName = <<>>
          THEN /\ net' = net \o CreateRequests(newName)
               /\ lastOp' = Did("createPortfolio", "Invalid Name")
               /\ onOkCallback' = NoCallback
          ELSE /\ Len(net) < MaxInFlight
               /\ PortfolioIdsSpoken < MaxPortfolioIds
               /\ net' = net \o CreateRequests(newName)
               /\ lastOp' = Did("createPortfolio", "")
               /\ UNCHANGED onOkCallback
    /\ UNCHANGED << portfolios, holdings, currentPortfolioId, priceUpdateInterval,
                    timers, nextTimer, phase, dbPortfolios, dbHoldings,
                    nextPid, nextHid >>
    /\ UNCHANGED << demoVars, pricesApplied, serverVars >>

\* createPortfolio() after its await
CreatePortfolioResponse(i, outcome) ==
    /\ i \in InFlight("createPortfolio")
    /\ Served(Answer(net[i], outcome))
    /\ IF Answer(net[i], outcome).ok
       THEN /\ portfolios' = Append(portfolios,
                                    [id |-> Answer(net[i], outcome).body.id,
                                     name |-> Answer(net[i], outcome).body.name,
                                     holdingIds |-> <<>>])
            /\ currentPortfolioId' = Answer(net[i], outcome).body.id
            /\ lastOp' = Rendered("createPortfolioDone", "", portfolios',
                                   currentPortfolioId')
       ELSE /\ lastOp' = Did("createPortfolioDone", "Error")
            /\ UNCHANGED << portfolios, currentPortfolioId >>
    \* closeAllModals on success, the alert 'Error' otherwise
    /\ onOkCallback' = NoCallback
    /\ net' = Remove(net, i)
    /\ UNCHANGED << holdings, priceUpdateInterval, timers, nextTimer, phase >>
    /\ UNCHANGED << demoVars, pricesApplied, serverVars >>

\* savePortfolioName() up to its await
savePortfolioName(rawName) ==
    /\ phase = "ready"
    /\ LET newName == Trim(rawName)
       IN IF HasCurrentPortfolio /\ newName # <<>>
          THEN /\ Len(net) < MaxInFlight
               /\ net' = Send([kind |-> "savePortfolioName",
                               pid |-> getCurrentPortfolio.id, name |-> newName])
          ELSE net' = net
    /\ lastOp' = Did("savePortfolioName", "")
    /\ UNCHANGED << portfolios, holdings, currentPortfolioId, priceUpdateInterval,
                    timers, nextTimer, onOkCallback, phase, dbPortfolios, dbHoldings,
                    nextPid, nextHid >>
    /\ UNCHANGED << demoVars, pricesApplied, serverVars >>

\* savePortfolioName() after its await
SavePortfolioNameResponse(i, outcome) ==
    /\ i \in InFlight("savePortfolioName")
    /\ Served(Answer(net[i], outcome))
    /\ IF ResponseOk(Answer(net[i], outcome)) /\ HasPortfolio(portfolios, net[i].pid)
       THEN /\ portfolios' =
                 [k \in DOMAIN portfolios |->
                    IF portfolios[k].id = net[i].pid
                    THEN [portfolios[k] EXCEPT !.name = net[i].name]
                    ELSE portfolios[k]]
            /\ lastOp' = Did("savePortfolioNameDone", "")
       ELSE /\ lastOp' = Did("savePortfolioNameDone", "Error")
            /\ UNCHANGED portfolios
    \* closeAllModals on success, the alert 'Error' otherwise
    /\ onOkCallback' = NoCallback
    /\ net' = Remove(net, i)
    /\ UNCHANGED << holdings, currentPortfolioId, priceUpdateInterval, timers,
                    nextTimer, phase >>
    /\ UNCHANGED << demoVars, pricesApplied, serverVars >>

\* a guard that lets the last portfolio go
IsNoPortfolio(ps) == Len(ps) < 1

\* deletePortfolio: Object.keys(this.portfolios).length <= 1
IsLastPortfolio(ps) == Len(ps) <= 1

\* deletePortfolio() up to the confirmation dialog
deletePortfolio ==
    /\ phase = "ready"
    /\ IF ~HasCurrentPortfolio
       THEN /\ lastOp' = Did("deletePortfolio", "")
            /\ UNCHANGED onOkCallback
       ELSE IF IsLastPortfolio(portfolios)
       THEN /\ lastOp' = Did("deletePortfolio", "Cannot Delete")
            /\ onOkCallback' = NoCallback
       ELSE /\ lastOp' = Did("deletePortfolio", "Delete Portfolio?")
            /\ onOkCallback' = [kind |-> "deletePortfolio",
                                pid |-> getCurrentPortfolio.id]
    /\ UNCHANGED << portfolios, holdings, currentPortfolioId, priceUpdateInterval,
                    timers, nextTimer, net, phase, dbPortfolios, dbHoldings, nextPid,
                    nextHid >>
    /\ UNCHANGED << demoVars, pricesApplied, serverVars >>

\* deletePortfolio, confirmed and answered OK: this.holdings afterwards
HoldingsAfterDelete(ps, hs, pid) ==
    LET gone == IF HasPortfolio(ps, pid)
                THEN Range(PortfolioOf(ps, pid).holdingIds) ELSE {}
    IN SelectSeq(hs, LAMBDA h : h.id \notin gone)

\* the confirmation callback of deletePortfolio after its await
DeletePortfolioResponse(i, outcome) ==
    /\ i \in InFlight("deletePortfolio")
    /\ Served(Answer(net[i], outcome))
    /\ IF ResponseOk(Answer(net[i], outcome))
       THEN LET ps == SelectSeq(portfolios, LAMBDA p : p.id # net[i].pid)
            IN /\ holdings' = HoldingsAfterDelete(portfolios, holdings, net[i].pid)
               /\ portfolios' = ps
               /\ currentPortfolioId' = FirstKey(ps)
               /\ lastOp' = Rendered("deletePortfolioDone", "", ps, FirstKey(ps))
               /\ UNCHANGED onOkCallback
       ELSE /\ lastOp' = Did("deletePortfolioDone", "Error")
            /\ onOkCallback' = NoCallback
            /\ UNCHANGED << portfolios, holdings, currentPortfolioId >>
    /\ net' = Remove(net, i)
    /\ UNCHANGED << priceUpdateInterval, timers, nextTimer, phase >>
    /\ UNCHANGED << demoVars, pricesApplied, serverVars >>

\* ids a caller may pass: those of the bound and one that was never issued
AnyPortfolioId == 1..(MaxPortfolioIds + 1)

\* ------------------------------------------------- the stand-alone client
\* Money of the stand-alone client is counted in cents.
Cents(x) == IF isNaN(x) THEN NaN ELSE x * 100

\* parseInt on the raw strings of the form
ParseInt(raw) ==
    CASE raw = "-1" -> -1
      [] raw = "0" -> 0
      [] raw = "1" -> 1
      [] raw = "2" -> 2
      [] OTHER -> NaN

AAPL == <<"A", "A", "P", "L">>
GOOGL == <<"G", "O", "O", "G", "L">>
MSFT == <<"M", "S", "F", "T">>
KO == <<"K", "O">>
JNJ == <<"J", "N", "J">>
PFE == <<"P", "F", "E">>

\* constructor: this.portfolios
DemoSeedPortfolios ==
    << [id |-> "tech-growth", name |-> "Tech Growth Portfolio",
        holdings |->
          << [symbol |-> AAPL, shares |-> 50, purchasePrice |-> 15025,
              purchaseDate |-> "2024-01-15", currentPrice |-> 17530],
             [symbol |-> GOOGL, shares |-> 25, purchasePrice |-> 12050,
              purchaseDate |-> "2024-01-20", currentPrice |-> 13875],
             [symbol |-> MSFT, shares |-> 30, purchasePrice |-> 28000,
              purchaseDate |-> "2024-02-01", currentPrice |-> 29550] >>],
       [id |-> "dividend-income", name |-> "Dividend Income Portfolio",
        holdings |->
          << [symbol |-> KO, shares |-> 100, purchasePrice |-> 5820,
              purchaseDate |-> "2024-01-10", currentPrice |-> 6145],
             [symbol |-> JNJ, shares |-> 40, purchasePrice |-> 16580,
              purchaseDate |-> "2024-01-25", currentPrice |-> 17220],
             [symbol |-> PFE, shares |-> 75, purchasePrice |-> 4215,
              purchaseDate |-> "2024-02-05", currentPrice |-> 3980] >>] >>

\* constructor: this.priceRanges
DemoSeedPriceRanges ==
    (AAPL :> [min |-> 17000, max |-> 18000])
    @@ (GOOGL :> [min |-> 13500, max |-> 14500])
    @@ (MSFT :> [min |-> 29000, max |-> 30000])
    @@ (KO :> [min |-> 6000, max |-> 6500])
    @@ (JNJ :> [min |-> 16800, max |-> 17500])
    @@ (PFE :> [min |-> 3800, max |-> 4200])

\* the page is not the API-backed client
NoApi ==
    /\ portfolios = <<>>
    /\ holdings = <<>>
    /\ currentPortfolioId = NoId
    /\ priceUpdateInterval = NoId
    /\ onOkCallback = NoCallback
    /\ net = <<>>
    /\ phase = "absent"
    /\ pricesApplied = <<>>
    /\ dbPortfolios = <<>>
    /\ dbHoldings = <<>>
    /\ nextPid = 1
    /\ nextHid = 1

\* the constructor up to the call of initializeApp
InitDemo ==
    /\ NoApi
    /\ ServerStarted
    /\ timers = {}
    /\ nextTimer = 1
    /\ demoPortfolios = DemoSeedPortfolios
    /\ demoCurrentPortfolioId = "tech-growth"
    /\ priceRanges = DemoSeedPriceRanges
    /\ updateInterval = NoId
    /\ previousPortfolioValue = 0
    /\ demoPhase = "constructed"
    /\ ticks = 0
    /\ lastOp = Did("constructor", "")

\* calculatePortfolioTotals(portfolio).totalValue
RECURSIVE TotalValue(_)
TotalValue(hs) ==
    IF hs = <<>> THEN 0
    ELSE Head(hs).shares * Head(hs).currentPrice + TotalValue(Tail(hs))

\* startPriceUpdates: the timers armed after it
DemoTimersAfterStart(ts, interval, fresh) == ts \cup {fresh}

\* the body of startPriceUpdates()
DemoStart ==
    /\ previousPortfolioValue' =
          IF HasPortfolio(demoPortfolios, demoCurrentPortfolioId)
          THEN TotalValue(PortfolioOf(demoPortfolios, demoCurrentPortfolioId).holdings)
          ELSE previousPortfolioValue
    /\ timers' = DemoTimersAfterStart(timers, updateInterval, nextTimer)
    /\ updateInterval' = nextTimer
    /\ nextTimer' = nextTimer + 1

\* initializeApp(): binds the events, renders and starts the price updates
initializeAppDemo ==
    /\ demoPhase = "constructed"
    /\ DemoStart
    /\ demoPhase' = "ready"
    /\ lastOp' = Rendered("initializeApp", "", demoPortfolios,
                           demoCurrentPortfolioId)
    /\ UNCHANGED << demoPortfolios, demoCurrentPortfolioId, priceRanges, ticks >>
    /\ UNCHANGED << apiVars, serverVars >>

\* startPriceUpdates()
startPriceUpdatesDemo ==
    /\ demoPhase = "ready"
    /\ nextTimer <= MaxTimers
    /\ DemoStart
    /\ lastOp' = Did("startPriceUpdates", "")
    /\ UNCHANGED << demoPortfolios, demoCurrentPortfolioId, priceRanges, demoPhase,
                    ticks >>
    /\ UNCHANGED << apiVars, serverVars >>

\* what Math.random() returns, in hundredths
Draws == { 0, 50, 99 }

Max(a, b) == IF a >= b THEN a ELSE b
Min(a, b) == IF a <= b THEN a ELSE b
Abs(a) == IF a >= 0 THEN a ELSE 0 - a

\* simulatePriceUpdates: newPrice of a holding priced cur, for one draw
\*   change = (Math.random() - 0.5) * 2 * volatility, volatility = 0.02
\*   newPrice = max(range.min, min(range.max, cur * (1 + change)))
NewPrice(cur, range, draw) ==
    Max(range.min, Min(range.max, (cur * (10000 + (draw - 50) * 4)) \div 10000))

\* simulatePriceUpdates: one holding after the update
Simulated(h, ranges, draw) ==
    IF h.symbol \in DOMAIN ranges
    THEN LET newPrice == NewPrice(h.currentPrice, ranges[h.symbol], draw)
         IN IF Abs(newPrice - h.currentPrice) > 1
            THEN [h EXCEPT !.currentPrice = newPrice]
            ELSE h
    ELSE h

\* an armed interval timer fires: () => this.simulatePriceUpdates().  The
\* draws of one run are taken equal for all holdings.
simulatePriceUpdates(t, draw) ==
    /\ t \in timers
    /\ ticks < MaxTicks
    /\ ticks' = ticks + 1
    /\ demoPortfolios' =
          [k \in DOMAIN demoPortfolios |->
             [demoPortfolios[k] EXCEPT
                !.holdings = [j \in DOMAIN @ |-> Simulated(@[j], priceRanges, draw)]]]
    \* if (hasUpdates) this.renderPortfolio()
    /\ lastOp' = IF demoPortfolios' # demoPortfolios
                  THEN Rendered("simulatePriceUpdates", "", demoPortfolios',
                                demoCurrentPortfolioId)
                  ELSE Did("simulatePriceUpdates", "")
    /\ UNCHANGED << demoCurrentPortfolioId, priceRanges, updateInterval,
                    previousPortfolioValue, demoPhase, timers, nextTimer >>
    /\ UNCHANGED << apiVars, serverVars >>

\* ids a caller may pass: those of the portfolios and one of no portfolio
AnyDemoPortfolioId == { "tech-growth", "dividend-income", "retirement" }

\* switchPortfolio(portfolioId)
switchPortfolioDemo(portfolioId) ==
    /\ demoPhase = "ready"
    /\ demoCurrentPortfolioId' = portfolioId
    /\ lastOp' = Rendered("switchPortfolio", "", demoPortfolios, portfolioId)
    /\ UNCHANGED << demoPortfolios, priceRanges, updateInterval,
                    previousPortfolioValue, demoPhase, ticks, timers, nextTimer >>
    /\ UNCHANGED << apiVars, serverVars >>

\* the characters [A-Z0-9] among Chars
UpperAlnum == { "A", "B", "E", "F", "G", "I", "J", "K", "L", "M", "N", "O", "P",
                "S", "T" }

\* /^[A-Z0-9]{1,6}$/.test(s)
symbolRegexTest(s) ==
    /\ Len(s) >= 1
    /\ Len(s) <= 6
    /\ \A i \in DOMAIN s : s[i] \in UpperAlnum

\* the form submissions tried with the stand-alone client
DemoAddStockInputs ==
    { [symbol |-> rs, shares |-> "2", price |-> "2", date |-> "2024-01-15"] :
        rs \in { <<>>, <<"B", ".">>, <<" ", "k", "o">>, AAPL } }
    \cup { [symbol |-> AAPL, shares |-> n, price |-> "2", date |-> "2024-01-15"] :
        n \in RawNumbers }
    \cup { [symbol |-> AAPL, shares |-> "2", price |-> n, date |-> "2024-01-15"] :
        n \in RawNumbers }
    \cup { [symbol |-> AAPL, shares |-> "2", price |-> "2", date |-> d] :
        d \in RawDates }

\* addStock up to the push: the alert shown, "return" (no current portfolio)
\* or "push"
DemoAddStockVerdict(ps, current, stock) ==
    IF ~symbolRegexTest(stock.symbol) THEN "Invalid stock symbol"
    ELSE IF \/ stock.symbol = <<>>
            \/ isNaN(stock.shares)
            \/ isNaN(stock.purchasePrice)
            \/ stock.purchaseDate = ""
    THEN "Please fill in all fields"
    ELSE IF stock.shares <= 0 \/ stock.purchasePrice <= 0
    THEN "Must be positive"
    ELSE IF ~HasPortfolio(ps, current) THEN "return"
    ELSE "push"

\* addStock: this.priceRanges afterwards
RangesAfterAdd(ranges, stock) ==
    IF stock.symbol \in DOMAIN ranges THEN ranges
    ELSE ranges @@ (stock.symbol :>
                      [min |-> (stock.purchasePrice * 9) \div 10,
                       max |-> (stock.purchasePrice * 11) \div 10])

\* addStock()
addStockDemo(in) ==
    /\ demoPhase = "ready"
    /\ LET stock == [symbol |-> Trim(ToUpperCase(in.symbol)),
                     shares |-> ParseInt(in.shares),
                     purchasePrice |-> Cents(ParseFloat(in.price)),
                     purchaseDate |-> in.date,
                     currentPrice |-> Cents(ParseFloat(in.price))]
           verdict == DemoAddStockVerdict(demoPortfolios, demoCurrentPortfolioId, stock)
       IN IF verdict = "push"
          THEN /\ Len(PortfolioOf(demoPortfolios, demoCurrentPortfolioId).holdings)
                     < MaxDemoHoldings
               /\ demoPortfolios' =
                     [k \in DOMAIN demoPortfolios |->
                        IF demoPortfolios[k].id = demoCurrentPortfolioId
                        THEN [demoPortfolios[k] EXCEPT !.holdings = Append(@, stock)]
                        ELSE demoPortfolios[k]]
               /\ priceRanges' = RangesAfterAdd(priceRanges, stock)
               /\ lastOp' = Rendered("addStock", "", demoPortfolios',
                                      demoCurrentPortfolioId)
          ELSE /\ lastOp' = Did("addStock", verdict)
               /\ UNCHANGED << demoPortfolios, priceRanges >>
    /\ UNCHANGED << demoCurrentPortfolioId, updateInterval, previousPortfolioValue,
                    demoPhase, ticks, timers, nextTimer >>
    /\ UNCHANGED << apiVars, serverVars >>

\* window 'beforeunload': clearInterval(app.updateInterval)
beforeunload ==
    /\ demoPhase = "ready"
    /\ timers' = IF updateInterval # NoId THEN clearInterval(timers, updateInterval)
                 ELSE timers
    /\ lastOp' = Did("beforeunload", "")
    /\ UNCHANGED << demoVars, nextTimer >>
    /\ UNCHANGED << apiVars, serverVars >>

\* ------------------------------------------------------ the figures shown
\* (num / den) * 100, kept as the quotient the code divides out; den = 0 is
\* the division by zero
Percent(num, den) == [num |-> num * 100, den |-> den]

\* the literal 0 of `totalCost > 0 ? ... : 0`
ZeroPercent == [num |-> 0, den |-> 1]

\* calculateHoldingMetrics dividing whatever the cost is
calculateHoldingMetricsUnguarded(h) ==
    LET marketValue == h.shares * h.currentPrice
        totalCost == h.shares * h.purchasePrice
        totalGainLoss == marketValue - totalCost
    IN [marketValue |-> marketValue, totalGainLoss |-> totalGainLoss,
        gainLossPercent |-> Percent(totalGainLoss, totalCost)]

\* calculateHoldingMetrics(h)
calculateHoldingMetrics(h) ==
    LET marketValue == h.shares * h.currentPrice
        totalCost == h.shares * h.purchasePrice
        totalGainLoss == marketValue - totalCost
    IN [marketValue |-> marketValue, totalGainLoss |-> totalGainLoss,
        gainLossPercent |-> IF totalCost > 0 THEN Percent(totalGainLoss, totalCost)
                            ELSE ZeroPercent]

\* render -> renderHoldings -> createTableRow(holding) for the row of holding
\* holdingId of the current portfolio: the figures the row shows
createTableRow(holdingId) ==
    /\ phase = "ready"
    /\ holdingId \in RenderedHoldings
    /\ lastOp' = Rendered("createTableRow",
                          calculateHoldingMetrics(HoldingOf(holdings, holdingId)),
                          portfolios, currentPortfolioId)
    /\ UNCHANGED << apiVars, demoVars, serverVars, timers, nextTimer >>

\* createTableRow(holding, index) of the stand-alone client: the figures it
\* computes itself
createTableRowFigures(holding) ==
    LET marketValue == holding.shares * holding.currentPrice
        totalGainLoss == marketValue - (holding.shares * holding.purchasePrice)
    IN [marketValue |-> marketValue, totalGainLoss |-> totalGainLoss,
        gainLossPercent |->
            Percent(totalGainLoss, holding.shares * holding.purchasePrice)]

\* renderPortfolio -> renderHoldings -> createTableRow(holding, index) of the
\* stand-alone client
createTableRowDemo(index) ==
    /\ demoPhase = "ready"
    /\ HasPortfolio(demoPortfolios, demoCurrentPortfolioId)
    /\ index \in DOMAIN PortfolioOf(demoPortfolios, demoCurrentPortfolioId).holdings
    /\ lastOp' = Rendered("createTableRow",
                          createTableRowFigures(
                              PortfolioOf(demoPortfolios,
                                          demoCurrentPortfolioId).holdings[index]),
                          demoPortfolios, demoCurrentPortfolioId)
    /\ UNCHANGED << apiVars, demoVars, serverVars, timers, nextTimer >>

\* the forEach of calculatePortfolioTotals: totalValue and totalCost over the
\* ids of holdingIds that this.holdings knows
RECURSIVE TotalsOver(_, _)
TotalsOver(ids, hs) ==
    IF ids = <<>> THEN [totalValue |-> 0, totalCost |-> 0]
    ELSE LET rest == TotalsOver(Tail(ids), hs)
         IN IF HasHolding(hs, Head(ids))
            THEN LET h == HoldingOf(hs, Head(ids))
                 IN [totalValue |-> rest.totalValue + h.shares * h.currentPrice,
                     totalCost |-> rest.totalCost + h.shares * h.purchasePrice]
            ELSE rest

\* calculatePortfolioTotals dividing whatever the cost is
calculatePortfolioTotalsUnguarded(p, hs) ==
    LET t == TotalsOver(p.holdingIds, hs)
        totalGainLoss == t.totalValue - t.totalCost
    IN [totalValue |-> t.totalValue, totalGainLoss |-> totalGainLoss,
        totalGainLossPercent |-> Percent(totalGainLoss, t.totalCost)]

\* calculatePortfolioTotals(p) with this.holdings = hs
calculatePortfolioTotals(p, hs) ==
    LET t == TotalsOver(p.holdingIds, hs)
        totalGainLoss == t.totalValue - t.totalCost
    IN [totalValue |-> t.totalValue, totalGainLoss |-> totalGainLoss,
        totalGainLossPercent |->
            IF t.totalCost > 0 THEN Percent(totalGainLoss, t.totalCost)
            ELSE ZeroPercent]

\* render -> renderPortfolioSummary(portfolio): the figures of the summary
renderPortfolioSummary ==
    /\ phase = "ready"
    /\ HasCurrentPortfolio
    /\ lastOp' = Rendered("renderPortfolioSummary",
                          calculatePortfolioTotals(getCurrentPortfolio, holdings),
                          portfolios, currentPortfolioId)
    /\ UNCHANGED << apiVars, demoVars, serverVars, timers, nextTimer >>

\* calculatePortfolioTotals of the stand-alone client: totalCost
RECURSIVE TotalCost(_)
TotalCost(hs) ==
    IF hs = <<>> THEN 0
    ELSE Head(hs).shares * Head(hs).purchasePrice + TotalCost(Tail(hs))

\* calculatePortfolioTotals(portfolio) of the stand-alone client
calculatePortfolioTotalsDemo(portfolio) ==
    LET totalValue == TotalValue(portfolio.holdings)
        totalCost == TotalCost(portfolio.holdings)
        totalGainLoss == totalValue - totalCost
    IN [totalValue |-> totalValue, totalGainLoss |-> totalGainLoss,
        totalGainLossPercent |->
            IF totalCost > 0 THEN Percent(totalGainLoss, totalCost)
            ELSE ZeroPercent]

\* renderPortfolio -> renderPortfolioSummary() of the stand-alone client
renderPortfolioSummaryDemo ==
    /\ demoPhase = "ready"
    /\ HasPortfolio(demoPortfolios, demoCurrentPortfolioId)
    /\ lastOp' = Rendered("renderPortfolioSummary",
                          calculatePortfolioTotalsDemo(
                              PortfolioOf(demoPortfolios, demoCurrentPortfolioId)),
                          demoPortfolios, demoCurrentPortfolioId)
    /\ UNCHANGED << apiVars, demoVars, serverVars, timers, nextTimer >>

\* what table Holdings may hold of portfolio 1 when the page is opened: up to
\* MaxHoldingIds rows, written by any client of the REST interface
MetricShares == { 1, 2 }
MetricPrices == { 0, 2, 4 }
MetricSymbol(k) == IF k = 1 THEN <<"A">> ELSE <<"B">>
MetricTables ==
    UNION { { [k \in 1..n |->
                 [id |-> k, portfolioId |-> 1, symbol |-> MetricSymbol(k),
                  shares |-> sp[k][1], purchasePrice |-> sp[k][2],
                  purchaseDate |-> "2024-01-15"]] :
              sp \in [1..n -> MetricShares \X MetricPrices] } :
            n \in 0..MaxHoldingIds }

\* the API-backed page opened on such a database
InitTables ==
    /\ NoDemo
    /\ ServerStarted
    /\ portfolios = <<>>
    /\ holdings = <<>>
    /\ currentPortfolioId = NoId
    /\ priceUpdateInterval = NoId
    /\ timers = {}
    /\ nextTimer = 1
    /\ onOkCallback = NoCallback
    /\ net = << LoadRequest >>
    /\ phase = "loading"
    /\ pricesApplied = <<>>
    /\ dbPortfolios = SeedPortfolios
    /\ dbHoldings \in MetricTables
    /\ nextPid = Len(dbPortfolios) + 1
    /\ nextHid = Len(dbHoldings) + 1
    /\ lastOp = Did("constructor", "")

\* either page
InitFigures == InitTables \/ InitDemo

\* ---------------------------------------------------------- specifications
Next ==
    \/ \E i \in DOMAIN net, outcome \in Outcomes : LoadResponse(i, outcome)
    \/ startPriceUpdates
    \/ \E t \in timers : Tick(t)
    \/ \E i \in DOMAIN net, how \in QuoteFailures : QuoteFailed(i, how)
    \/ \E i \in InFlight("quotes") : \E quotes \in ProviderQuotes(net[i].symbols) :
          QuoteSucceeded(i, quotes)
    \/ \E id \in AnyPortfolioId : switchPortfolio(id)
    \/ \E in \in AddStockInputs : addStock(in)
    \/ \E i \in DOMAIN net, outcome \in Outcomes : AddStockResponse(i, outcome)
    \/ \E id \in HoldingIds : removeHolding(id)
    \/ ConfirmOk
    \/ ConfirmCancel
    \/ \E i \in DOMAIN net, outcome \in Outcomes : RemoveHoldingResponse(i, outcome)
    \/ \E rn \in RawNames : createPortfolio(rn)
    \/ \E i \in DOMAIN net, outcome \in Outcomes : CreatePortfolioResponse(i, outcome)
    \/ \E rn \in RawNames : savePortfolioName(rn)
    \/ \E i \in DOMAIN net, outcome \in Outcomes : SavePortfolioNameResponse(i, outcome)
    \/ deletePortfolio
    \/ \E i \in DOMAIN net, outcome \in Outcomes : DeletePortfolioResponse(i, outcome)
    \/ \E id \in HoldingIds : createTableRow(id)
    \/ renderPortfolioSummary

\* the API-backed page with every operation of the user
Spec == Init /\ [][Next]_vars

NextPrices ==
    \/ \E i \in DOMAIN net, outcome \in Outcomes : LoadResponse(i, outcome)
    \/ startPriceUpdates
    \/ \E t \in timers : Tick(t)
    \/ \E i \in DOMAIN net, how \in QuoteFailures : QuoteFailed(i, how)
    \/ \E i \in InFlight("quotes") : \E quotes \in ProviderQuotes(net[i].symbols) :
          QuoteSucceeded(i, quotes)
    \/ \E in \in AddStockInputs : addStock(in)
    \/ \E i \in DOMAIN net, outcome \in Outcomes : AddStockResponse(i, outcome)

\* the API-backed page: the price scheduler, restarted at will, while the
\* user adds stocks
SpecPrices == Init /\ [][NextPrices]_vars

NextStore ==
    \/ \E i \in DOMAIN net, outcome \in Outcomes : LoadResponse(i, outcome)
    \/ \E t \in timers : Tick(t)
    \/ \E i \in DOMAIN net, how \in QuoteFailures : QuoteFailed(i, how)
    \/ \E i \in InFlight("quotes") : \E quotes \in ProviderQuotes(net[i].symbols) :
          QuoteSucceeded(i, quotes)
    \/ \E id \in AnyPortfolioId : switchPortfolio(id)
    \/ \E in \in AddStockInputs : addStock(in)
    \/ \E i \in DOMAIN net, outcome \in Outcomes : AddStockResponse(i, outcome)
    \/ ConfirmOk
    \/ ConfirmCancel
    \/ \E rn \in RawNames : createPortfolio(rn)
    \/ \E i \in DOMAIN net, outcome \in Outcomes : CreatePortfolioResponse(i, outcome)
    \/ deletePortfolio
    \/ \E i \in DOMAIN net, outcome \in Outcomes : DeletePortfolioResponse(i, outcome)

\* the API-backed page: the user adds stocks and creates, switches and
\* deletes portfolios
SpecStore == Init /\ [][NextStore]_vars

NextNames ==
    \/ \E i \in DOMAIN net, outcome \in Outcomes : LoadResponse(i, outcome)
    \/ \E i \in DOMAIN net, how \in QuoteFailures : QuoteFailed(i, how)
    \/ \E in \in AddStockInputs : addStock(in)
    \/ \E i \in DOMAIN net, outcome \in Outcomes : AddStockResponse(i, outcome)
    \/ \E rn \in RawNames : createPortfolio(rn)
    \/ \E i \in DOMAIN net, outcome \in Outcomes : CreatePortfolioResponse(i, outcome)
    \/ \E rn \in RawNames : savePortfolioName(rn)
    \/ \E i \in DOMAIN net, outcome \in Outcomes :
          SavePortfolioNameResponse(i, outcome)

\* the API-backed page while the price provider is down: the user adds
\* stocks and creates and renames portfolios
SpecNames == Init /\ [][NextNames]_vars

NextHoldings ==
    \/ \E i \in DOMAIN net, outcome \in Outcomes : LoadResponse(i, outcome)
    \/ \E i \in DOMAIN net, how \in QuoteFailures : QuoteFailed(i, how)
    \/ \E i \in InFlight("quotes") : \E quotes \in ProviderQuotes(net[i].symbols) :
          QuoteSucceeded(i, quotes)
    \/ \E id \in AnyPortfolioId : switchPortfolio(id)
    \/ \E rn \in RawNames : createPortfolio(rn)
    \/ \E i \in DOMAIN net, outcome \in Outcomes : CreatePortfolioResponse(i, outcome)
    \/ \E id \in HoldingIds : removeHolding(id)
    \/ ConfirmOk
    \/ ConfirmCancel
    \/ \E i \in DOMAIN net, outcome \in Outcomes : RemoveHoldingResponse(i, outcome)

\* the API-backed page: the user creates and switches portfolios and removes
\* holdings
SpecHoldings == Init /\ [][NextHoldings]_vars

NextMutations ==
    \/ \E i \in DOMAIN net, outcome \in Outcomes : LoadResponse(i, outcome)
    \/ \E i \in DOMAIN net, how \in QuoteFailures : QuoteFailed(i, how)
    \/ \E in \in AddStockInputs : addStock(in)
    \/ \E i \in DOMAIN net, outcome \in Outcomes : AddStockResponse(i, outcome)
    \/ \E id \in HoldingIds : removeHolding(id)
    \/ ConfirmOk
    \/ \E i \in DOMAIN net, outcome \in Outcomes : RemoveHoldingResponse(i, outcome)
    \/ \E rn \in RawNames : createPortfolio(rn)
    \/ \E i \in DOMAIN net, outcome \in Outcomes : CreatePortfolioResponse(i, outcome)
    \/ \E rn \in RawNames : savePortfolioName(rn)
    \/ \E i \in DOMAIN net, outcome \in Outcomes :
          SavePortfolioNameResponse(i, outcome)
    \/ deletePortfolio
    \/ \E i \in DOMAIN net, outcome \in Outcomes : DeletePortfolioResponse(i, outcome)

\* the API-backed page while the price provider is down: the user issues
\* the five requests that change the database
SpecMutations == Init /\ [][NextMutations]_vars

NextFigures ==
    \/ \E i \in DOMAIN net, outcome \in Outcomes : LoadResponse(i, outcome)
    \/ \E i \in DOMAIN net, how \in QuoteFailures : QuoteFailed(i, how)
    \/ \E i \in InFlight("quotes") : \E quotes \in ProviderQuotes(net[i].symbols) :
          QuoteSucceeded(i, quotes)
    \/ \E id \in HoldingIds : createTableRow(id)
    \/ renderPortfolioSummary
    \/ initializeAppDemo
    \/ \E id \in AnyDemoPortfolioId : switchPortfolioDemo(id)
    \/ \E in \in DemoAddStockInputs : addStockDemo(in)
    \/ \E index \in 1..MaxDemoHoldings : createTableRowDemo(index)
    \/ renderPortfolioSummaryDemo

\* either page, showing the figures of its holdings and portfolios
SpecFigures == InitFigures /\ [][NextFigures]_vars

NextQuotes ==
    \/ \E i \in DOMAIN net, outcome \in Outcomes : LoadResponse(i, outcome)
    \/ \E t \in timers : Tick(t)
    \/ \E i \in DOMAIN net, how \in QuoteFailures : QuoteFailed(i, how)
    \/ \E i \in InFlight("quotes") : \E quotes \in ProviderQuotes(net[i].symbols) :
          QuoteSucceeded(i, quotes)
    \/ \E id \in AnyPortfolioId : switchPortfolio(id)
    \/ \E in \in SymbolInputs : addStock(in)
    \/ \E i \in DOMAIN net, outcome \in Outcomes : AddStockResponse(i, outcome)
    \/ \E rn \in RawNames : createPortfolio(rn)
    \/ \E i \in DOMAIN net, outcome \in Outcomes : CreatePortfolioResponse(i, outcome)

\* the API-backed page: the user adds stocks of a few symbols to several
\* portfolios and switches between them while the price scheduler runs
SpecQuotes == Init /\ [][NextQuotes]_vars

NextLots ==
    \/ \E i \in DOMAIN net, outcome \in Outcomes : LoadResponse(i, outcome)
    \/ \E i \in InFlight("quotes") : \E quotes \in ProviderQuotes(net[i].symbols) :
          QuoteSucceeded(i, quotes)
    \/ \E id \in AnyPortfolioId : switchPortfolio(id)
    \/ \E in \in LotInputs : addStock(in)
    \/ \E i \in DOMAIN net, outcome \in Outcomes : AddStockResponse(i, outcome)
    \/ \E id \in HoldingIds : removeHolding(id)
    \/ ConfirmOk
    \/ \E i \in DOMAIN net, outcome \in Outcomes : RemoveHoldingResponse(i, outcome)
    \/ \E rn \in LotNames : createPortfolio(rn)
    \/ \E i \in DOMAIN net, outcome \in Outcomes : CreatePortfolioResponse(i, outcome)
    \/ \E rn \in LotNames : savePortfolioName(rn)
    \/ \E i \in DOMAIN net, outcome \in Outcomes :
          SavePortfolioNameResponse(i, outcome)
    \/ deletePortfolio
    \/ \E i \in DOMAIN net, outcome \in Outcomes : DeletePortfolioResponse(i, outcome)

\* the API-backed page: every operation on portfolios and holdings, with one
\* lot to add and one name to give, while prices are refreshed
SpecLots == Init /\ [][NextLots]_vars

\* what becomes of a quote request in flight: it is answered, or it fails,
\* or the provider stays silent
QuoteSettles ==
    \/ \E i \in DOMAIN net, how \in QuoteFailures : QuoteFailed(i, how)
    \/ \E i \in InFlight("quotes") : \E quotes \in ProviderQuotes(net[i].symbols) :
          QuoteSucceeded(i, quotes)
    \/ \E i \in DOMAIN net : QuoteUnanswered(i)

NextPending ==
    \/ \E i \in DOMAIN net, outcome \in Outcomes : LoadResponse(i, outcome)
    \/ \E t \in timers : Tick(t)
    \/ QuoteSettles
    \/ \E in \in AddStockInputs : addStock(in)
    \/ \E i \in DOMAIN net, outcome \in Outcomes : AddStockResponse(i, outcome)

\* the API-backed page with a price provider that may stay silent.  The
\* event loop runs the continuation of every settled promise and the browser
\* fires every armed interval timer; the user need not act.
SpecPending ==
    /\ Init
    /\ [][NextPending]_vars
    /\ WF_vars(\E i \in DOMAIN net, outcome \in Outcomes : LoadResponse(i, outcome))
    /\ WF_vars(\E i \in DOMAIN net, outcome \in Outcomes : AddStockResponse(i, outcome))
    /\ WF_vars(\E t \in timers : Tick(t))
    /\ WF_vars(QuoteSettles)

\* the server has started, with or without PUBLIC_API_KEY in its environment
InitToken ==
    /\ NoDemo
    /\ NoApi
    /\ timers = {}
    /\ nextTimer = 1
    /\ apiAccessToken = [token |-> NoToken, expiresAt |-> 0]
    /\ now = 0
    /\ tokenRequests = 0
    /\ secretKey \in { NoKey, "secret" }
    /\ lastOp = Did("constructor", "")

NextToken ==
    \/ getValidAccessToken
    \/ \E data \in TokenAnswers : TokenResponse(data)
    \/ \E t \in Instants : ClockAdvances(t)

\* the server: quote requests ask for the access token as time passes
SpecToken == InitToken /\ [][NextToken]_vars

NextDemo ==
    \/ initializeAppDemo
    \/ startPriceUpdatesDemo
    \/ \E t \in timers, draw \in Draws : simulatePriceUpdates(t, draw)
    \/ \E id \in AnyDemoPortfolioId : switchPortfolioDemo(id)
    \/ \E in \in DemoAddStockInputs : addStockDemo(in)
    \/ beforeunload

\* the stand-alone client
SpecDemo == InitDemo /\ [][NextDemo]_vars

\* ------------------------------------------------------------------ claims
\* C1: at most one price reconciliation is in flight at any time: no two
\* quote requests of the page are outstanding together.
C1_OneReconciliationInFlight == Cardinality(InFlight("quotes")) <= 1

\* C2: after any sequence of startPriceUpdates calls at most one recurring
\* refresh timer is armed.
C2_AtMostOneTimer == Cardinality(timers) <= 1

\* C3: when the quote request of a reconciliation fails, the currentPrice of
\* every holding is what it was before; nothing of the batch is applied.
C3_FailedQuoteKeepsPrices ==
    [][lastOp'.op = "quoteFailed" =>
          /\ DOMAIN holdings' = DOMAIN holdings
          /\ \A k \in DOMAIN holdings :
                holdings'[k].currentPrice = holdings[k].currentPrice]_vars

\* a quote request has failed while a holding carried a refreshed price
C3_Witness ==
    /\ lastOp.op = "quoteFailed"
    /\ \E k \in DOMAIN holdings : holdings[k].currentPrice # holdings[k].purchasePrice

\* C4: a failed reconciliation leaves the recurring timer armed and issues no
\* quote request of its own; the armed timer can fire, and a tick sends the
\* quote request of a new reconciliation.
C4_FailureKeepsScheduler ==
    /\ [](lastOp.op = "quoteFailed" =>
             /\ priceUpdateInterval \in timers
             /\ ENABLED Tick(priceUpdateInterval))
    /\ [][lastOp'.op = "quoteFailed" =>
             /\ timers' = timers
             /\ priceUpdateInterval' = priceUpdateInterval
             /\ Cardinality(InFlight("quotes")') = Cardinality(InFlight("quotes")) - 1
             /\ Len(net') = Len(net) - 1]_vars
    /\ [][(lastOp'.op = "tick" /\ holdings # <<>>) =>
             /\ Len(net') = Len(net) + 1
             /\ net'[Len(net')].kind = "quotes"]_vars

\* a quote request has failed, there are holdings to price and no request
\* is in flight
C4_Witness ==
    /\ lastOp.op = "quoteFailed"
    /\ priceUpdateInterval \in timers
    /\ holdings # <<>>
    /\ net = <<>>

\* the symbols of the holdings listed in portfolio p
ListedSymbols(p) ==
    [j \in DOMAIN SelectSeq(p.holdingIds, LAMBDA id : HasHolding(holdings, id)) |->
        HoldingOf(holdings,
                  SelectSeq(p.holdingIds, LAMBDA id : HasHolding(holdings, id))[j]).symbol]

\* C5: in every reachable state no portfolio contains two holdings with the
\* same symbol.
C5_NoDuplicateSymbols ==
    \A k \in DOMAIN portfolios :
        LET syms == ListedSymbols(portfolios[k])
        IN \A a, b \in DOMAIN syms : a # b => syms[a] # syms[b]

\* the symbols of the holdings of the active portfolio of the stand-alone client
DemoActiveSymbols ==
    IF HasPortfolio(demoPortfolios, demoCurrentPortfolioId)
    THEN { h.symbol :
             h \in Range(PortfolioOf(demoPortfolios, demoCurrentPortfolioId).holdings) }
    ELSE {}

\* C6: addStock with a symbol that is already in the active portfolio fails
\* with an error shown and leaves the holdings of the portfolio as they were.
C6_DuplicateAddRejected ==
    [][\A in \in DemoAddStockInputs :
          (addStockDemo(in) /\ Trim(ToUpperCase(in.symbol)) \in DemoActiveSymbols)
             => (lastOp'.shown # "" /\ demoPortfolios' = demoPortfolios)]_vars

\* C7: once a portfolio exists, at least one portfolio exists ever after.
C7_PortfolioRemains ==
    [][Len(portfolios) >= 1 => Len(portfolios') >= 1]_vars

C9_ActivePortfolioExists ==
    \/ HasPortfolio(demoPortfolios, demoCurrentPortfolioId)
    \/ (demoCurrentPortfolioId = "" /\ demoPortfolios = <<>>)

\* C10: a holding whose symbol is missing from a successful quote response
\* keeps the currentPrice it had.
C10_OmittedSymbolKeepsPrice ==
    [][\A i \in InFlight("quotes") : \A quotes \in ProviderQuotes(net[i].symbols) :
          QuoteSucceeded(i, quotes) =>
             /\ DOMAIN holdings' = DOMAIN holdings
             /\ \A k \in DOMAIN holdings :
                   holdings[k].symbol \notin DOMAIN QuotesHandler(quotes) =>
                      holdings'[k].currentPrice = holdings[k].currentPrice]_vars

\* a response has priced one holding and left another, whose symbol it
\* omitted, at its price
C10_Witness ==
    /\ lastOp.op = "quoteSucceeded"
    /\ \E a, b \in DOMAIN holdings :
          /\ holdings[a].currentPrice # holdings[a].purchasePrice
          /\ holdings[b].currentPrice = holdings[b].purchasePrice

\* C11: once fetchRealTimePrices has succeeded, the same symbol-to-price map
\* applied again changes no holding's currentPrice, and a fetchRealTimePrices
\* that succeeds after one that applied the same map still rewrites the
\* last-updated time.
C11_SamePricesTwice ==
    /\ [](lastOp.op = "quoteSucceeded" =>
             ApplyPrices(holdings, pricesApplied[1]) = holdings)
    /\ [][(lastOp'.op = "quoteSucceeded" /\ lastOp'.again) =>
             lastOp'.refreshed]_vars

\* C12: with a portfolio selected, addStock does not answer 'Invalid Input' to
\* a symbol, shares > 0, a date and purchasePrice = 0, and it answers
\* 'Invalid Input', changing nothing, to shares <= 0, purchasePrice < 0 or an
\* absent date.
C12_ZeroPriceAccepted ==
    [][\A in \in AddStockInputs :
         (addStock(in) /\ HasCurrentPortfolio) =>
            LET symbol == Trim(ToUpperCase(in.symbol))
                shares == ParseFloat(in.shares)
                purchasePrice == ParseFloat(in.price)
            IN /\ ( /\ symbol # <<>>
                    /\ ~isNaN(shares) /\ shares > 0
                    /\ purchasePrice = 0
                    /\ in.date # "" ) => lastOp'.shown # "Invalid Input"
               /\ ( \/ LeZero(shares)
                    \/ LtZero(purchasePrice)
                    \/ in.date = "" ) =>
                      /\ lastOp'.shown = "Invalid Input"
                      /\ UNCHANGED << portfolios, holdings, net >>]_vars

\* C13: every holding in the client's store and in table Holdings has a symbol
\* of 1 to 6 uppercase letters and digits, and addStock on an input whose
\* normalised symbol is not of that form changes no portfolio and no holding
\* and sends no request.
C13_StoredSymbolsWellFormed ==
    /\ [](/\ \A i \in DOMAIN holdings : symbolRegexTest(holdings[i].symbol)
          /\ \A i \in DOMAIN dbHoldings : symbolRegexTest(dbHoldings[i].symbol))
    /\ [][\A in \in AddStockInputs :
            (addStock(in) /\ ~symbolRegexTest(Trim(ToUpperCase(in.symbol)))) =>
               UNCHANGED << portfolios, holdings, net, dbPortfolios, dbHoldings >>]_vars

\* C14: when addStock answers 'No Portfolio', 'Invalid Input' or 'Duplicate
\* Stock', when createPortfolio answers 'Invalid Name' and when
\* savePortfolioName is given a name that is empty once trimmed, the
\* portfolios, the holdings and the current portfolio id stay as they are, no
\* request is sent and the database is not touched.
C14_RejectionChangesNothing ==
    [][( \/ /\ lastOp'.op = "addStock"
            /\ lastOp'.shown \in {"No Portfolio", "Invalid Input", "Duplicate Stock"}
         \/ /\ lastOp'.op = "createPortfolio"
            /\ lastOp'.shown = "Invalid Name"
         \/ \E rn \in RawNames : savePortfolioName(rn) /\ Trim(rn) = <<>> ) =>
          UNCHANGED << portfolios, holdings, currentPortfolioId, net,
                       dbPortfolios, dbHoldings >>]_vars

\* createPortfolio has just answered 'Invalid Name' on a page that lists a
\* portfolio with a holding
C14_Witness ==
    /\ lastOp.op = "createPortfolio"
    /\ lastOp.shown = "Invalid Name"
    /\ portfolios # <<>>
    /\ holdings # <<>>

\* C15: createPortfolio with a name that is empty or made of spaces only
\* answers 'Invalid Name', sends nothing and creates nothing; with any other
\* name it posts the portfolio, and once the server has stored it the client
\* lists one more portfolio, with that name and no holdings, which is the
\* current portfolio, every other portfolio and holding being as before.
C15_CreatePortfolio ==
    /\ [][\A rn \in RawNames :
            (createPortfolio(rn) /\ \A k \in DOMAIN rn : rn[k] = " ") =>
               /\ lastOp'.shown = "Invalid Name"
               /\ UNCHANGED << portfolios, holdings, currentPortfolioId, net,
                               dbPortfolios >>]_vars
    /\ [][\A rn \in RawNames :
            (createPortfolio(rn) /\ \E k \in DOMAIN rn : rn[k] # " ") =>
               /\ lastOp'.shown = ""
               /\ Len(net') = Len(net) + 1
               /\ net'[Len(net')].kind = "createPortfolio"]_vars
    /\ [][\A i \in DOMAIN net :
            CreatePortfolioResponse(i, "ok") =>
               /\ Len(portfolios') = Len(portfolios) + 1
               /\ SubSeq(portfolios', 1, Len(portfolios)) = portfolios
               /\ portfolios'[Len(portfolios')].name = net[i].name
               /\ portfolios'[Len(portfolios')].holdingIds = <<>>
               /\ ~HasPortfolio(portfolios, portfolios'[Len(portfolios')].id)
               /\ currentPortfolioId' = portfolios'[Len(portfolios')].id
               /\ holdings' = holdings]_vars

\* a second portfolio has just been created next to one that has a holding
C15_Witness ==
    /\ lastOp.op = "createPortfolioDone"
    /\ lastOp.shown = ""
    /\ Len(portfolios) = 2
    /\ currentPortfolioId = portfolios[2].id
    /\ portfolios[2].holdingIds = <<>>
    /\ holdings # <<>>

\* C16: when the server answers DELETE /api/holdings/:id for a holding it does
\* not have, the client shows an error and keeps its portfolios and holdings;
\* when it has deleted the holding, the client drops exactly that holding
\* from this.holdings and its id from every portfolio's holdingIds, and
\* nothing else changes.
C16_RemoveHolding ==
    [][\A i \in DOMAIN net :
         RemoveHoldingResponse(i, "ok") =>
            IF \E k \in DOMAIN dbHoldings : dbHoldings[k].id = net[i].hid
            THEN /\ holdings' = SelectSeq(holdings, LAMBDA h : h.id # net[i].hid)
                 /\ portfolios' =
                       [k \in DOMAIN portfolios |->
                          [portfolios[k] EXCEPT
                             !.holdingIds = SelectSeq(@, LAMBDA id : id # net[i].hid)]]
                 /\ currentPortfolioId' = currentPortfolioId
            ELSE /\ lastOp'.shown = "Error"
                 /\ UNCHANGED << portfolios, holdings, currentPortfolioId,
                                 dbPortfolios, dbHoldings >>]_vars

\* C17: when the answer to POST holdings, DELETE holding, POST portfolio, PUT
\* portfolio or DELETE portfolio is not OK, the client shows 'Error' and its
\* portfolios, holdings and current portfolio id are what they were before
\* the answer.
C17_FailedMutationNotApplied ==
    [][\A i \in DOMAIN net, outcome \in Outcomes :
         ( /\ \/ AddStockResponse(i, outcome)
              \/ RemoveHoldingResponse(i, outcome)
              \/ CreatePortfolioResponse(i, outcome)
              \/ SavePortfolioNameResponse(i, outcome)
              \/ DeletePortfolioResponse(i, outcome)
           /\ ~Answer(net[i], outcome).ok ) =>
            /\ lastOp'.shown = "Error"
            /\ UNCHANGED << portfolios, holdings, currentPortfolioId >>]_vars

\* the deletion of a portfolio has just failed on a page with two portfolios
\* and a holding
C17_Witness ==
    /\ lastOp.op = "deletePortfolioDone"
    /\ lastOp.shown = "Error"
    /\ Len(portfolios) = 2
    /\ holdings # <<>>

\* C18: the row of a holding shows marketValue = shares * currentPrice and
\* totalGainLoss = marketValue - shares * purchasePrice, and a percentage of 0
\* when purchasePrice is 0; the row of the stand-alone client shows the same
\* three figures as calculateHoldingMetrics gives for its holding.
C18_HoldingMetrics ==
    /\ [][\A id \in HoldingIds :
            createTableRow(id) =>
               LET h == HoldingOf(holdings, id)
                   m == lastOp'.shown
               IN /\ m.marketValue = h.shares * h.currentPrice
                  /\ m.totalGainLoss = m.marketValue - h.shares * h.purchasePrice
                  /\ h.purchasePrice = 0 =>
                        (m.gainLossPercent.num = 0 /\ m.gainLossPercent.den # 0)]_vars
    /\ [][\A index \in 1..MaxDemoHoldings :
            createTableRowDemo(index) =>
               LET h == PortfolioOf(demoPortfolios,
                                    demoCurrentPortfolioId).holdings[index]
                   m == lastOp'.shown
               IN /\ m.marketValue = h.shares * h.currentPrice
                  /\ m.totalGainLoss = m.marketValue - h.shares * h.purchasePrice
                  /\ h.purchasePrice = 0 =>
                        (m.gainLossPercent.num = 0 /\ m.gainLossPercent.den # 0)
                  /\ m = calculateHoldingMetrics(h)]_vars

\* the row of a holding that cost nothing and is worth something shows 0 %
C18_Witness ==
    /\ lastOp.op = "createTableRow"
    /\ phase = "ready"
    /\ lastOp.shown.marketValue > 0
    /\ lastOp.shown.totalGainLoss = lastOp.shown.marketValue
    /\ lastOp.shown.gainLossPercent = ZeroPercent

\* the sum of f[1] .. f[n]
RECURSIVE SumTo(_, _)
SumTo(f, n) == IF n = 0 THEN 0 ELSE f[n] + SumTo(f, n - 1)

\* the sum of shares * price(h) over the holdings hs
SumOver(hs, price(_)) ==
    SumTo([k \in DOMAIN hs |-> hs[k].shares * price(hs[k])], Len(hs))

\* h.currentPrice and h.purchasePrice
CurrentPriceOf(h) == h.currentPrice
PurchasePriceOf(h) == h.purchasePrice

\* the figures t are those of the holdings hs
TotalsOf(t, hs) ==
    /\ t.totalValue = SumOver(hs, CurrentPriceOf)
    /\ t.totalGainLoss = t.totalValue - SumOver(hs, PurchasePriceOf)
    /\ SumOver(hs, PurchasePriceOf) = 0 =>
          (t.totalGainLossPercent.num = 0 /\ t.totalGainLossPercent.den # 0)

\* C19: the summary of the current portfolio shows totalValue = the sum of
\* shares * currentPrice over the holdings of that portfolio, totalGainLoss =
\* totalValue minus the sum of shares * purchasePrice over them, and a
\* percentage of 0 when that cost is 0, in both clients.
C19_PortfolioTotals ==
    /\ [][renderPortfolioSummary =>
            TotalsOf(lastOp'.shown,
                     SelectSeq(holdings,
                               LAMBDA h : h.portfolioId = currentPortfolioId))]_vars
    /\ [][renderPortfolioSummaryDemo =>
            TotalsOf(lastOp'.shown,
                     PortfolioOf(demoPortfolios, demoCurrentPortfolioId).holdings)]_vars

\* the summary of a portfolio whose holdings cost nothing and are worth
\* something shows 0 %
C19_Witness ==
    /\ lastOp.op = "renderPortfolioSummary"
    /\ phase = "ready"
    /\ Len(holdings) = MaxHoldingIds
    /\ lastOp.shown.totalValue > 0
    /\ lastOp.shown.totalGainLoss = lastOp.shown.totalValue
    /\ lastOp.shown.totalGainLossPercent = ZeroPercent

\* C20: once the 'beforeunload' handler has stopped the price updates no
\* timer stays armed, so that no simulatePriceUpdates runs as the next step,
\* and the handler run while no timer is armed changes nothing of the page.
C20_StopCancelsTimer ==
    /\ [](lastOp.op = "beforeunload" => timers = {})
    /\ [][lastOp.op = "beforeunload" =>
            ~ \E t \in timers, draw \in Draws : simulatePriceUpdates(t, draw)]_vars
    /\ [][(beforeunload /\ timers = {}) => UNCHANGED << timers, demoVars >>]_vars

\* no element of the sequence occurs twice
NoRepeat(seq) == \A j, k \in DOMAIN seq : seq[j] = seq[k] => j = k

\* C21: in every quote request in flight the symbols the client lists are
\* pairwise different, and so are the instruments GET /api/quotes makes of
\* them for the price provider.
C21_NoSymbolTwice ==
    \A i \in InFlight("quotes") :
       /\ NoRepeat(net[i].symbols)
       /\ NoRepeat(Instruments(Join(net[i].symbols)))

\* C22: when no holding exists, a pass of fetchRealTimePrices sends no quote
\* request and changes nothing: a tick of the timer leaves the page, the
\* requests in flight, the timers and the database as they were, the pass
\* that startPriceUpdates runs adds no request, and no quote request in
\* flight ever lists no symbol.
C22_NoHoldingsNoRequest ==
    /\ [][(lastOp'.op = "tick" /\ holdings = <<>>) =>
             UNCHANGED << apiVars, demoVars, serverVars, timers, nextTimer >>]_vars
    /\ [][(lastOp'.op = "startPriceUpdates" /\ holdings = <<>>) =>
             UNCHANGED << net, portfolios, holdings, currentPortfolioId,
                          dbPortfolios, dbHoldings >>]_vars
    /\ [][(lastOp'.op = "load" /\ holdings' = <<>>) =>
             InFlight("quotes")' = {}]_vars
    /\ [](\A i \in InFlight("quotes") : net[i].symbols # <<>>)

\* the timer has fired while the page held no holding
C22_Witness ==
    /\ lastOp.op = "tick"
    /\ holdings = <<>>
    /\ phase = "ready"
    /\ net = <<>>

\* C23: a fetchRealTimePrices that succeeded flashes the price cells only
\* when it wrote the currentPrice of at least one holding, and when it wrote
\* none it still rewrites the 'lastUpdated' element.
C23_SignalOnlyWhenUpdated ==
    [][lastOp'.op = "quoteSucceeded" =>
          LET written == { k \in DOMAIN holdings :
                             holdings[k].symbol \in DOMAIN pricesApplied'[1] }
          IN /\ lastOp'.flashed => written # {}
             /\ written = {} => lastOp'.refreshed]_vars

\* the requests of the five operations that change the store
MutationKinds ==
    { "addStock", "removeHolding", "createPortfolio", "savePortfolioName",
      "deletePortfolio" }

\* C24: while a mutation has sent its request and has not yet taken the
\* answer into the store, no fetchRealTimePrices writes a currentPrice.
C24_MutationExcludesPriceWrite ==
    [][(/\ lastOp'.op = "quoteSucceeded"
        /\ \E k \in DOMAIN holdings :
              holdings[k].symbol \in DOMAIN pricesApplied'[1]) =>
          \A i \in DOMAIN net : net[i].kind \notin MutationKinds]_vars

\* the quote requests of fetchRealTimePrices that have not completed
PassesInFlight == InFlight("quotes") \cup InFlight("quotesUnanswered")

\* C25: whenever a fetchRealTimePrices has sent its quote request, a
\* fetchRealTimePrices completes, by applying prices or in its catch branch;
\* a provider that never answers does not prevent it.
C25_PassCompletes ==
    (PassesInFlight # {}) ~>
        (lastOp.op \in { "quoteSucceeded", "quoteFailed" } \/ PassesInFlight = {})

\* C26: switchPortfolio changes nothing but the current portfolio id: the
\* timers, the requests in flight, the portfolios, the holdings with their
\* prices and the database stay as they are; and a fetchRealTimePrices that
\* succeeds, whichever portfolio is current, writes the price of every
\* holding whose symbol it was given a price for.
C26_SwitchChangesCurrentOnly ==
    /\ [][lastOp'.op = "switchPortfolio" =>
             UNCHANGED << portfolios, holdings, priceUpdateInterval, timers,
                          nextTimer, net, onOkCallback, phase, dbPortfolios,
                          dbHoldings, nextPid, nextHid, pricesApplied >>]_vars
    /\ [][lastOp'.op = "quoteSucceeded" =>
             /\ DOMAIN holdings' = DOMAIN holdings
             /\ \A k \in DOMAIN holdings :
                   holdings[k].symbol \in DOMAIN pricesApplied'[1] =>
                      holdings'[k].currentPrice =
                         pricesApplied'[1][holdings[k].symbol]]_vars

\* the user has switched back to the first of two portfolios, and the
\* fetchRealTimePrices that succeeded then wrote the price of a holding of
\* the other portfolio
C26_Witness ==
    /\ lastOp.op = "quoteSucceeded"
    /\ Len(portfolios) = 2
    /\ currentPortfolioId = portfolios[1].id
    /\ priceUpdateInterval \in timers
    /\ \E k \in DOMAIN holdings :
          /\ holdings[k].id \in Range(portfolios[2].holdingIds)
          /\ holdings[k].symbol \in DOMAIN pricesApplied[1]
          /\ holdings[k].currentPrice # holdings[k].purchasePrice

\* C27: no step changes the shares or the purchasePrice of a holding that
\* exists before and after it, so shares * purchasePrice stays what it was
\* when the holding was created; a fetchRealTimePrices that succeeds changes
\* no field of a holding other than currentPrice.
C27_CostBasisConstant ==
    /\ [][\A k \in DOMAIN holdings : \A j \in DOMAIN holdings' :
             holdings'[j].id = holdings[k].id =>
                /\ holdings'[j].shares = holdings[k].shares
                /\ holdings'[j].purchasePrice = holdings[k].purchasePrice
                /\ holdings'[j].shares * holdings'[j].purchasePrice =
                      holdings[k].shares * holdings[k].purchasePrice]_vars
    /\ [][lastOp'.op = "quoteSucceeded" =>
             /\ DOMAIN holdings' = DOMAIN holdings
             /\ \A k \in DOMAIN holdings :
                   holdings'[k] =
                      [holdings[k] EXCEPT !.currentPrice = holdings'[k].currentPrice]]_vars

\* two holdings of different cost, one of them repriced, have lived through
\* the renaming of a portfolio
C27_Witness ==
    /\ lastOp.op = "savePortfolioNameDone"
    /\ Len(holdings) = 2
    /\ holdings[1].shares * holdings[1].purchasePrice
          # holdings[2].shares * holdings[2].purchasePrice
    /\ \E k \in DOMAIN holdings : holdings[k].currentPrice # holdings[k].purchasePrice

\* C28: in every state of the API-backed page each id listed in the
\* holdingIds of a portfolio is a key of this.holdings, and each holding of
\* this.holdings is listed by exactly one portfolio.
C28_HoldingIdsConsistent ==
    /\ \A p \in DOMAIN portfolios :
          \A id \in Range(portfolios[p].holdingIds) : HasHolding(holdings, id)
    /\ \A k \in DOMAIN holdings :
          Cardinality({ p \in DOMAIN portfolios :
                          holdings[k].id \in Range(portfolios[p].holdingIds) }) = 1

\* C29: prices are applied in the order of the requests: when two
\* fetchRealTimePrices succeed one right after the other and the request of
\* the second was sent before the request of the first, the second writes
\* the currentPrice of no holding that the first has written.
C29_PricesInRequestOrder ==
    [][(/\ lastOp.op = "quoteSucceeded"
        /\ lastOp'.op = "quoteSucceeded"
        /\ lastOp'.at < lastOp.at) =>
          \A k \in DOMAIN holdings :
             ~(/\ holdings[k].symbol \in DOMAIN pricesApplied[1]
               /\ holdings[k].symbol \in DOMAIN pricesApplied'[1])]_vars

\* getValidAccessToken found no cached token that it may still use
NoUsableToken ==
    ~(apiAccessToken.token # NoToken /\ apiAccessToken.expiresAt - now > TokenMargin)

\* getValidAccessToken returns the cached token only when one is cached and
\* the time is more than 60 seconds before its expiry, and the cache is
\* written only by an answer of the access-token service that carries a
\* token, so a failed token request leaves token and expiry as they are
TokenCacheRules ==
    /\ [][(lastOp'.op = "getValidAccessToken" /\ lastOp'.returned # NoToken) =>
             /\ lastOp'.returned = apiAccessToken.token
             /\ apiAccessToken.expiresAt - now > TokenMargin
             /\ UNCHANGED tokenRequests]_vars
    /\ [][apiAccessToken' # apiAccessToken =>
             /\ lastOp'.op = "tokenResponse"
             /\ ~lastOp'.threw
             /\ apiAccessToken'.token = lastOp'.returned
             /\ apiAccessToken'.token # NoToken]_vars
    /\ [][(lastOp'.op = "tokenResponse" /\ lastOp'.threw) =>
             UNCHANGED apiAccessToken]_vars

\* C30 as stated: the rules of the cache, and whenever getValidAccessToken
\* finds no usable cached token it calls the access-token service.
C30_AsStated ==
    /\ TokenCacheRules
    /\ [][(lastOp'.op = "getValidAccessToken" /\ NoUsableToken) =>
             tokenRequests' = tokenRequests + 1]_vars

\* C30: the rules of the cache, and whenever getValidAccessToken finds no
\* usable cached token it calls the access-token service if the secret key is
\* configured, and throws without calling it if the key is not.
C30_TokenCache ==
    /\ TokenCacheRules
    /\ [][(lastOp'.op = "getValidAccessToken" /\ NoUsableToken) =>
             IF secretKey # NoKey
             THEN tokenRequests' = tokenRequests + 1 /\ lastOp'.requested
             ELSE UNCHANGED tokenRequests /\ lastOp'.threw]_vars

\* a token is cached, its expiry is exactly 60 seconds away, and
\* getValidAccessToken has called the access-token service for a new one
C30_Witness ==
    /\ lastOp.op = "getValidAccessToken"
    /\ lastOp.requested
    /\ apiAccessToken.token # NoToken
    /\ apiAccessToken.expiresAt - now = TokenMargin


====
